---- MODULE Spec2Model ----
(***************************************************************************)
(* Nodate STM32 core: the ADC driver (arch/stm32/cpp/core/src/adc.cpp,     *)
(* the __stm32f0 implementation, the only family the file implements).     *)
(*                                                                         *)
(* Registers are modelled as sets of the bit names that are 1.  The status *)
(* register ADC_ISR is write-1-to-clear (rc_w1): a written 1 clears the    *)
(* bit, a written 0 leaves it.  All other registers are plain read/write.  *)
(* On the F0 only ADC1 is bound to a register block (adc.cpp:22-29) and    *)
(* ADC1_IRQHandler serves adcList[0] only, so the model holds the state of *)
(* the device ADC_1.                                                       *)
(***************************************************************************)
EXTENDS Integers, Sequences, FiniteSets, TLC

(* ------------------------------ bounds --------------------------------- *)
\* Largest handshake bound explored by Spec (the source fixes 400, see below).
MaxTimeout == 1
\* Largest sample the data register delivers.
MaxSample == 1
\* Largest reference count of a port clock.
MaxHandles == 3
\* Other peripherals that use the same port at a time.
MaxSiblings == 1
\* Largest max_retries passed to pollConversion.
MaxRetries == 2

(* ------------------------- program constants --------------------------- *)
\* uint32_t timeout = 400;   (adc.cpp:100, 163, 339, 382, 411)
TimeoutDefault == 400
\* if (pin > 18) { return false; }   (adc.cpp:196)
MaxPin == 18
\* if (time > 7) { return false; }   (adc.cpp:205, 254)
MaxTime == 7
\* Width of one half of the 32-bit tick counter representation.
Half == 65536

(* ------------------- 32-bit unsigned tick arithmetic ------------------- *)
\* A uint32_t is kept as its two 16-bit halves: the checker's integers are
\* narrower than 2^32.
U32(h, l) == [hi |-> h, lo |-> l]

Zero32 == U32(0, 0)

\* The SysTick handler's counter increment, modulo 2^32.
Inc32(t) ==
    IF t.lo = Half - 1
    THEN U32((t.hi + 1) % Half, 0)
    ELSE U32(t.hi, t.lo + 1)

\* Mutant: the difference is taken without the wrap-around, 0 when a < b.
Sub32NoWrap(a, b) ==
    IF a.hi < b.hi \/ (a.hi = b.hi /\ a.lo < b.lo)
    THEN U32(0, 0)
    ELSE U32(a.hi - b.hi - (IF a.lo < b.lo THEN 1 ELSE 0),
             (a.lo - b.lo + Half) % Half)

\* a - b in uint32_t arithmetic (modulo 2^32).
Sub32(a, b) ==
    LET borrow == IF a.lo < b.lo THEN 1 ELSE 0
    IN  U32((a.hi - b.hi - borrow + Half) % Half, (a.lo - b.lo + Half) % Half)

\* a > n for a uint32_t a and a bound n < 2^16.
Gt32(a, n) == a.hi > 0 \/ a.lo > n

\* Tick values a wait can start at: the counter is free running, so any
\* value is possible; the representatives are boot time and just below the
\* 32-bit wrap-around.
StartTicks == { Zero32, U32(Half - 1, Half - 2) }

(* ----------------------------- vocabulary ------------------------------ *)
\* Event kinds of ADC_interrupts / ADC_ISR, highest priority first.
Events == << "AWD1", "OVR", "EOS", "EOC", "EOSMP", "ADRDY" >>

EventSet == { Events[i] : i \in 1..Len(Events) }

\* ADC_internal.
Internals == { "ADC_VSENSE", "ADC_VREFINT", "ADC_VBAT" }

Modes == { "ADC_MODE_SINGLE", "ADC_MODE_CONTINUOUS" }

\* Arguments the API is driven with.
PinArgs == { MaxPin, MaxPin + 1 }

TimeArgs == { MaxTime, MaxTime + 1 }

\* Internal sources passed: two of ADC_internal and a value outside it.
InternalArgs == { "ADC_VSENSE", "ADC_VBAT", "ADC_OTHER" }

IsrArgs == { {}, {"AWD1", "EOC"}, {"ADRDY"} }

\* The waits of the driver, named by function and awaited bit.
Waits == { "cal_aden", "cal_adcal", "cfg_hsi14", "start_adrdy",
           "get_eoc", "stop_adstp", "stop_aden" }

VARIABLES
    instance,   \* ADC_device fields: active, calibrated, sampling, cbs
    regs,       \* instance.regs: CR, ISR, IER, CFGR1, CFGR2, CHSELR, SMPR, DR
    rcc,        \* RCC: HSI14ON/HSI14RDY of RCC->CR2, clock enable of the ADC
    ccr,        \* ADC1_COMMON->CCR
    gpio,       \* pins put in analogue mode
    nvic,       \* NVIC: line enabled, priority
    tick0,      \* the value the SysTick counter has when a wait starts
    tick,       \* the SysTick counter (uint32_t) during a wait
    timeout,    \* the bound of the handshakes
    pc,         \* "idle", a wait of Waits, or "fault"
    phase,      \* inside a wait: "poll" (loop condition) or "check" (loop body)
    ts,         \* local ts of the running wait
    spun,       \* the loop body ran since the last tick
    call,       \* the API call in progress or last returned: op, args, ret
    pre,        \* the state at entry of that call
    effects,    \* registers and services that call has written or requested
    condAt,     \* elapsed ticks at which the awaited condition became true, -1: not yet
    calOk,      \* calibrate() has returned true
    val,        \* the caller's out-parameter of getValue
    waited,     \* condAt of the waits the call has already left, in order
    uart,       \* the USART driver, the port clock gate and its other users
    ads,        \* the ADS1115 driver object and the device on the bus
    irq         \* the interrupt routine run that led to this state: status on entry, callbacks invoked

vars == << instance, regs, rcc, ccr, gpio, nvic, tick0, tick, timeout, pc, phase, ts,
           spun, call, pre, effects, condAt, calOk, val, waited, uart, ads, irq >>

\* The state of the ADC driver and its environment.
adcVars == << instance, regs, rcc, ccr, gpio, nvic, tick0, tick, timeout, pc, phase, ts,
              spun, call, pre, effects, condAt, calOk, val, waited, irq >>

\* The state an API call can change, as one value.
Snapshot == [instance |-> instance, regs |-> regs, rcc |-> rcc, ccr |-> ccr,
             gpio |-> gpio, nvic |-> nvic]

NoCall == [op |-> "none", args |-> << >>, ret |-> "none"]

NoIrq == [ran |-> FALSE, entry |-> {}, called |-> << >>]

\* ADC_device item; a default-constructed device (adc.cpp:16-20), the
\* peripheral in its reset state.
InitDevice ==
    /\ instance = [active |-> FALSE, calibrated |-> FALSE, sampling |-> FALSE,
                   cbs |-> {}]
    /\ regs = [CR |-> {}, ISR |-> {}, IER |-> {}, CFGR1 |-> {}, CFGR2 |-> {},
               CHSELR |-> {}, SMPR |-> 0, DR |-> 0]
    /\ rcc = [HSI14ON |-> FALSE, HSI14RDY |-> FALSE, ADCEN |-> FALSE]
    /\ ccr = {}
    /\ gpio = {}
    /\ nvic = [enabled |-> FALSE, prio |-> 0]
    /\ tick = Zero32
    /\ pc = "idle"
    /\ phase = "poll"
    /\ ts = Zero32
    /\ spun = FALSE
    /\ call = NoCall
    /\ pre = Snapshot
    /\ effects = {}
    /\ condAt = -1
    /\ calOk = FALSE
    /\ val = 0
    /\ waited = << >>
    /\ irq = NoIrq

(* ----------------------- USART driver: vocabulary ---------------------- *)
\* GPIO ports the pins of the USART can be on.
Ports == { "GPIO_PORT_A", "GPIO_PORT_B" }

\* if (tx_pin > 15 || rx_pin > 15) { return false;}   (usart.cpp:180)
MaxUartPin == 15
\* if (tx_af > 7 || rx_af > 7) { return false; }   (usart.cpp:181)
MaxUartAf == 7

\* SystemCoreClock of the F0 at full speed, in Hz.
SystemCoreClock == 48000000
\* USART_BRR_DIV_MANTISSA_Pos, USART_BRR_DIV_FRACTION_Pos
USART_BRR_DIV_MANTISSA_Pos == 4
USART_BRR_DIV_FRACTION_Pos == 0

\* The service calls of startUart that can fail (usart.cpp:188, 194, 199,
\* 205, 219), "none": all succeed.
UartStages == { "none", "tx_af", "tx_out", "rx_af", "rx_out", "per" }

NoUartCall == [op |-> "none", args |-> << >>, ret |-> "none", failed |-> "none"]

\* The run of the USART interrupt routine that led to this state: RXNE and
\* the receive data register on entry, the reads of the data register, the
\* callback invocations, the writes to the transmit data register.
NoUartIrq == [ran |-> FALSE, rxne |-> FALSE, rdr |-> 0, reads |-> 0,
              called |-> << >>, tdr |-> << >>]

\* USART_device item of USART_1 (default constructed), the clock gate with
\* no port enabled and no other user.
\*   active, tx_port, rx_port: the instance;  cr1: bits of USART CR1;
\*   irqOn: the NVIC line;  per: the clock of the USART;
\*   ports: reference count of each port clock;
\*   held: references held by other active peripherals;
\*   call, pre: the last call and the reference counts at its entry;
\*   callback: instance.callback;  rxne, ore: bits of USART ISR;  rdr: the
\*   receive data register;  rxb: the global rxb ('a');  irq: see NoUartIrq;
\*   brr: USART BRR;  prio: the priority of the NVIC line;  pins: the stored
\*   tx_pin, tx_af, rx_pin, rx_af;  baudrate: the stored baud rate.
UartReset ==
    [active |-> FALSE, tx_port |-> "GPIO_PORT_A", rx_port |-> "GPIO_PORT_A",
     cr1 |-> {}, irqOn |-> FALSE, per |-> FALSE,
     brr |-> 0, prio |-> "reset", pins |-> << 0, 0, 0, 0 >>, baudrate |-> 0,
     callback |-> "none", rxne |-> FALSE, ore |-> FALSE, rdr |-> 0, rxb |-> 97,
     irq |-> NoUartIrq,
     ports |-> [p \in Ports |-> 0], held |-> [p \in Ports |-> 0],
     call |-> NoUartCall, pre |-> [p \in Ports |-> 0]]

(* ---------------------- ADS1115 driver: vocabulary --------------------- *)
\* Register addresses, field positions and mode codes of the ADS1115.
ADS1115_RA_CONVERSION == 0
ADS1115_RA_CONFIG == 1
ADS1115_CFG_OS_BIT == 15
ADS1115_CFG_MUX_BIT == 14
ADS1115_CFG_MUX_LENGTH == 3
ADS1115_CFG_PGA_BIT == 11
ADS1115_CFG_PGA_LENGTH == 3
ADS1115_CFG_MODE_BIT == 8
ADS1115_CFG_DR_BIT == 7
ADS1115_CFG_DR_LENGTH == 3
ADS1115_CFG_COMP_MODE_BIT == 4
ADS1115_CFG_COMP_POL_BIT == 3
ADS1115_RA_LO_THRESH == 2
ADS1115_RA_HI_THRESH == 3
ADS1115_MODE_CONTINUOUS == 0
ADS1115_MODE_SINGLESHOT == 1

NoAdsCall == [op |-> "none", arg |-> 0, ret |-> 0]

\* The read-modify-write of a field setter: the two bytes fetched from the
\* configuration register and the two bytes written back.
NoWrite == [fetched |-> << 0, 0 >>, written |-> << 0, 0 >>]

\* The setters of a field of several bits.
FieldSetters == { "setMultiplexer", "setGain", "setRate", "setComparatorQueueMode" }

\* pollConversion: not running ("idle") or in its loop ("loop"); the loop
\* counter i, max_retries, the results of the isConversionReady calls made,
\* the value returned.
NoPoll == [pc |-> "idle", i |-> 0, max |-> 0, tries |-> << >>, ret |-> "none"]

\* An ADS1115 object and its device: the device's configuration register
\* (high byte without the status bit, low byte), pointer register and
\* threshold registers (0x7FFF and 0x8000 after power-on), the
\* members reg, buffer, devMode, pgaMode and muxMode, the last two calls,
\* the configuration register and devMode at the entry of the last one, the
\* setMode and getConversion calls made during it, and its read-modify-write
\* when it is a field setter.
AdsObject(hi, lo, mode) ==
    [cfg |-> << hi, lo >>, ptr |-> ADS1115_RA_CONVERSION,
     hiThresh |-> << 127, 255 >>, loThresh |-> << 128, 0 >>,
     reg |-> ADS1115_RA_CONVERSION, buffer |-> << 0, 0, 0 >>,
     devMode |-> mode, pgaMode |-> 0, muxMode |-> 0,
     call |-> NoAdsCall, prev |-> NoAdsCall, pre |-> << hi, lo >>,
     preMode |-> mode, trace |-> << >>, poll |-> NoPoll, wr |-> NoWrite]

\* The device after power-on (configuration 0x8583) with an object that no
\* call has been made on.
AdsReset == AdsObject(5, 131, ADS1115_MODE_SINGLESHOT)

\* The other drivers are at rest.
InitRest ==
    /\ uart = UartReset
    /\ ads = AdsReset

\* The handshake bound is a local set to 400 before every wait, marked
\* "TODO: make configurable"; Init draws it from 0..MaxTimeout.
Init ==
    /\ InitDevice
    /\ InitRest
    /\ timeout \in 0..MaxTimeout
    /\ tick0 = Zero32

(* ------------------------- register helpers ---------------------------- *)
\* A store to ADC_ISR: every bit written as 1 is cleared (rc_w1).
WriteISR(isr, written) == isr \ written

\* instance.regs->ISR |= bit: the compiler reads ISR, ors the bit in and
\* stores the result, so every flag that was set is written as 1.
IsrOrAssign(isr, bit) == WriteISR(isr, isr \cup {bit})

\* The interrupt-enable bit of an event in ADC_IER.
IEBit == [AWD1 |-> "AWDIE", OVR |-> "OVRIE", EOS |-> "EOSEQIE",
          EOC |-> "EOCIE", EOSMP |-> "EOSMPIE", ADRDY |-> "ADRDYIE"]

\* The status condition a wait spins on, in state s.
Awaited(w, s) ==
    CASE w = "cal_aden"    -> "ADEN" \notin s.regs.CR
      [] w = "cal_adcal"   -> "ADCAL" \notin s.regs.CR
      [] w = "cfg_hsi14"   -> s.rcc.HSI14RDY
      [] w = "start_adrdy" -> "ADRDY" \in s.regs.ISR
      [] w = "get_eoc"     -> "EOC" \in s.regs.ISR
      [] w = "stop_adstp"  -> "ADSTP" \notin s.regs.CR
      [] w = "stop_aden"   -> "ADEN" \notin s.regs.CR
      [] OTHER             -> FALSE

\* Mutant: the loop measures the elapsed ticks from the current tick.
ElapsedFrozen == Sub32(tick, tick)

\* McuCore::getSysTick() - ts
Elapsed == Sub32(tick, ts)

\* No wait is followed further than one tick past its expiry.
TickCap == timeout + 1

\* Mutant: the elapsed test expires one tick late.
ExpiredLate == Gt32(Elapsed, timeout + 1) \/ timeout = 0

\* ((McuCore::getSysTick() - ts) > timeout) || timeout == 0
Expired == Gt32(Elapsed, timeout) \/ timeout = 0

\* Rcc::enable(per): the clock gate of the peripheral; enabling an enabled
\* clock succeeds.  avail: the gate can serve the request.
RccEnable(r, avail) ==
    IF avail
    THEN [ok |-> TRUE, rcc |-> [r EXCEPT !.ADCEN = TRUE]]
    ELSE [ok |-> FALSE, rcc |-> r]

(* --------------------------- control helpers --------------------------- *)
Apply(s) ==
    /\ instance' = s.instance
    /\ regs' = s.regs
    /\ rcc' = s.rcc
    /\ ccr' = s.ccr
    /\ gpio' = s.gpio
    /\ nvic' = s.nvic

\* uint32_t ts = McuCore::getSysTick(); while (...): enter wait w in state s.
\* The counter is free running: the value read is tick0.
EnterWait(w, s) ==
    /\ pc' = w
    /\ phase' = "poll"
    /\ tick' = tick0
    /\ ts' = tick'
    /\ spun' = FALSE
    /\ condAt' = IF Awaited(w, s) THEN 0 ELSE -1
    /\ waited' = IF pc \in Waits THEN Append(waited, condAt) ELSE << >>
    /\ UNCHANGED << uart, ads >>

\* return r; time passes until the next call.
Return(c, r) ==
    /\ pc' = "idle"
    /\ phase' = "poll"
    /\ tick' = Zero32
    /\ ts' = Zero32
    /\ spun' = FALSE
    /\ condAt' = IF pc = "idle" THEN -1 ELSE condAt
    /\ waited' = IF pc = "idle" THEN << >> ELSE waited
    /\ UNCHANGED << uart, ads >>
    /\ call' = [c EXCEPT !.ret = r]

\* Entry of an API call: pre keeps the state it starts from.
Begin ==
    /\ pc = "idle"
    /\ pre' = Snapshot

Called(op, args) == [op |-> op, args |-> args, ret |-> "none"]

\* The loop condition of wait w was found false: go to the loop body.
Spin ==
    /\ phase' = "check"
    /\ UNCHANGED << instance, regs, rcc, ccr, gpio, nvic, tick, tick0, timeout, pc, ts,
                    spun, call, pre, effects, condAt, calOk, val, waited, uart, ads >>
    /\ irq' = NoIrq

(* ------------------------------ calibrate ------------------------------ *)
\* adc.cpp:96-101: disable the ADC if enabled, then wait for ADEN = 0.
CalibrateEntry(s) ==
    IF "ADEN" \in s.regs.CR
    THEN [s EXCEPT !.regs.CR = @ \cup {"ADDIS"}]
    ELSE s

CalibrateEffects(s) == IF "ADEN" \in s.regs.CR THEN {"CR"} ELSE {}

\* bool ADC::calibrate(ADC_devices device)
Calibrate ==
    /\ Begin
    /\ Apply(CalibrateEntry(Snapshot))
    /\ EnterWait("cal_aden", CalibrateEntry(Snapshot))
    /\ call' = Called("calibrate", << >>)
    /\ effects' = CalibrateEffects(Snapshot)
    /\ UNCHANGED << tick0, timeout, calOk, val >>
    /\ irq' = NoIrq

\* adc.cpp:102, 109-115: ADEN is 0; clear DMAEN, set ADCAL, wait for ADCAL = 0.
CalibrateWaitAden ==
    /\ pc = "cal_aden" /\ phase = "poll"
    /\ IF ~Awaited("cal_aden", Snapshot)
       THEN Spin
       ELSE LET s == [Snapshot EXCEPT !.regs.CFGR1 = @ \ {"DMAEN"},
                                      !.regs.CR = @ \cup {"ADCAL"}]
            IN  /\ Apply(s)
                /\ EnterWait("cal_adcal", s)
                /\ effects' = effects \cup {"CFGR1", "CR"}
                /\ UNCHANGED << tick0, timeout, call, pre, calOk, val >>
                /\ irq' = NoIrq

\* Mutant: the device is marked active before the clock is ready.
ConfigureClockActive(s, avail) ==
    LET en == RccEnable(s.rcc, avail)
    IN  IF ~s.instance.active /\ ~en.ok
        THEN [ok |-> FALSE, s |-> s]
        ELSE [ok |-> TRUE,
              s  |-> [s EXCEPT !.rcc = [en.rcc EXCEPT !.HSI14ON = TRUE],
                               !.regs.CFGR2 = @ \ {"CKMODE"},
                               !.instance.active = TRUE]]

\* adc.cpp:143-164 of configure, after the calibration: clock gate, clock
\* mode, HSI14 on, wait for HSI14RDY.
ConfigureClock(s, avail) ==
    LET en == RccEnable(s.rcc, avail)
    IN  IF ~s.instance.active /\ ~en.ok
        THEN [ok |-> FALSE, s |-> s]
        ELSE [ok |-> TRUE,
              s  |-> [s EXCEPT !.rcc = [(IF s.instance.active THEN s.rcc ELSE en.rcc)
                                           EXCEPT !.HSI14ON = TRUE],
                               !.regs.CFGR2 = @ \ {"CKMODE"}]]

\* The rest of configure once instance.calibrated is true, for call record c.
ConfigureRest(s, eff, c) ==
    \E avail \in BOOLEAN :
        LET r == ConfigureClock(s, avail)
        IN  /\ Apply(r.s)
            /\ effects' = eff \cup {"Rcc::enable"}
                              \cup (IF r.ok THEN {"CFGR2", "RCC_CR2"} ELSE {})
            /\ IF r.ok
               THEN /\ EnterWait("cfg_hsi14", r.s)
                    /\ call' = c
               ELSE Return(c, "false")

\* Mutant: a finished calibration is not recorded.
CalibratedNot(s) == s

\* instance.calibrated = true;   (adc.cpp:123)
Calibrated(s) == [s EXCEPT !.instance.calibrated = TRUE]

\* adc.cpp:116, 123-125: ADCAL is 0; the device is calibrated.
CalibrateWaitAdcal ==
    /\ pc = "cal_adcal" /\ phase = "poll"
    /\ IF ~Awaited("cal_adcal", Snapshot)
       THEN Spin
       ELSE LET s == Calibrated(Snapshot)
            IN  /\ calOk' = TRUE
                /\ IF call.op = "calibrate"
                   THEN /\ Apply(s)
                        /\ Return(call, "true")
                        /\ UNCHANGED effects
                   ELSE ConfigureRest(s, effects, call)
                /\ UNCHANGED << tick0, timeout, pre, val >>
                /\ irq' = NoIrq

(* ------------------------------ configure ------------------------------ *)
\* Mutant: configure does not return early on an active device.
NeverActive(s) == FALSE

\* if (instance.active) { return true; } // Already active.   (adc.cpp:136)
AlreadyActive(s) == s.instance.active

\* bool ADC::configure(ADC_devices device, ADC_modes mode)
Configure ==
    \E mode \in Modes :
        /\ Begin
        /\ UNCHANGED << tick0, timeout, calOk, val >>
        /\ irq' = NoIrq
        /\ IF AlreadyActive(Snapshot)
           THEN /\ Return(Called("configure", << mode >>), "true")
                /\ effects' = {}
                /\ UNCHANGED << instance, regs, rcc, ccr, gpio, nvic >>
           ELSE IF ~instance.calibrated
           THEN /\ Apply(CalibrateEntry(Snapshot))
                /\ EnterWait("cal_aden", CalibrateEntry(Snapshot))
                /\ call' = Called("configure", << mode >>)
                /\ effects' = CalibrateEffects(Snapshot)
           ELSE ConfigureRest(Snapshot, {}, Called("configure", << mode >>))

\* adc.cpp:165, 172-182: HSI14 is ready; set the mode, the device is active.
ConfigureWaitHsi14 ==
    /\ pc = "cfg_hsi14" /\ phase = "poll"
    /\ IF ~Awaited("cfg_hsi14", Snapshot)
       THEN Spin
       ELSE LET mode == call.args[1]
                s == [Snapshot EXCEPT
                        !.regs.CFGR1 = IF mode = "ADC_MODE_SINGLE"
                                       THEN @ \ {"CONT"} ELSE @ \cup {"CONT"},
                        !.instance.active = TRUE]
            IN  /\ Apply(s)
                /\ Return(call, "true")
                /\ effects' = effects \cup {"CFGR1"}
                /\ UNCHANGED << tick0, timeout, pre, calOk, val >>
                /\ irq' = NoIrq

(* -------------------------------- channel ------------------------------ *)
\* GPIO::set_analog(port, pin): the pin is put in analogue mode.
SetAnalog(g, pin) == g \cup {pin}

\* The outcome of a call that does not wait: the state it leaves, what it
\* wrote, what it returns.
Outcome(s, eff, r) == [s |-> s, eff |-> eff, ret |-> r]

\* Mutant: the pin check is off by one (pin > 19).
ChannelPinOffByOne(s, pin, time) ==
    IF s.instance.sampling THEN Outcome(s, {}, "false")
    ELSE IF pin > MaxPin + 1 THEN Outcome(s, {}, "false")
    ELSE LET s1 == [s EXCEPT !.gpio = SetAnalog(@, pin),
                             !.regs.CHSELR = @ \cup {pin}]
         IN  IF time > MaxTime
             THEN Outcome(s1, {"GPIO", "CHSELR"}, "false")
             ELSE Outcome([s1 EXCEPT !.regs.SMPR = time],
                          {"GPIO", "CHSELR", "SMPR"}, "true")

\* bool ADC::channel(device, channel, port, pin, time)   (adc.cpp:191-212)
ChannelPin(s, pin, time) ==
    IF s.instance.sampling THEN Outcome(s, {}, "false")
    ELSE IF pin > MaxPin THEN Outcome(s, {}, "false")
    ELSE LET s1 == [s EXCEPT !.gpio = SetAnalog(@, pin),
                             !.regs.CHSELR = @ \cup {pin}]
         IN  IF time > MaxTime
             THEN Outcome(s1, {"GPIO", "CHSELR"}, "false")
             ELSE Outcome([s1 EXCEPT !.regs.SMPR = time],
                          {"GPIO", "CHSELR", "SMPR"}, "true")

\* bool ADC::channel(device, ADC_internal channel, time)   (adc.cpp:217-261)
ChannelInternal(s, channel, time) ==
    IF s.instance.sampling THEN Outcome(s, {}, "false")
    ELSE IF channel \notin Internals
    THEN Outcome(s, {}, "false")
    ELSE LET s1 ==
               CASE channel = "ADC_VSENSE" ->
                        [s EXCEPT !.ccr = @ \cup {"TSEN"},
                                  !.regs.SMPR = MaxTime,
                                  !.regs.CHSELR = @ \cup {16}]
                 [] channel = "ADC_VREFINT" ->
                        [s EXCEPT !.ccr = @ \cup {"VREFEN"},
                                  !.regs.CHSELR = @ \cup {17}]
                 [] channel = "ADC_VBAT" ->
                        [s EXCEPT !.ccr = @ \cup {"VBATEN"},
                                  !.regs.CHSELR = @ \cup {18}]
             e1 == {"CCR", "CHSELR"}
                     \cup (IF channel = "ADC_VSENSE" THEN {"SMPR"} ELSE {})
         IN  IF time > MaxTime
             THEN Outcome(s1, e1, "false")
             ELSE Outcome([s1 EXCEPT !.regs.SMPR = time], e1 \cup {"SMPR"}, "true")

\* A call that returns without waiting.
Atomic(op, args, o) ==
    /\ pc = "idle"
    /\ pre' = Snapshot
    /\ Apply(o.s)
    /\ effects' = o.eff
    /\ Return(Called(op, args), o.ret)
    /\ UNCHANGED << tick0, timeout, calOk, val >>
    /\ irq' = NoIrq

Channel ==
    \E pin \in PinArgs, time \in TimeArgs :
        Atomic("channel", << pin, time >>, ChannelPin(Snapshot, pin, time))

ChannelInt ==
    \E channel \in InternalArgs, time \in TimeArgs :
        Atomic("channelInternal", << channel, time >>,
               ChannelInternal(Snapshot, channel, time))

(* ------------------------------ interrupts ----------------------------- *)
\* adc.cpp:272-289: the else-if chain enables the interrupt of the first
\* callback present.
FirstPresent(isr) ==
    IF isr = {} THEN {}
    ELSE LET i == CHOOSE k \in 1..Len(Events) :
                      /\ Events[k] \in isr
                      /\ \A j \in 1..(k - 1) : Events[j] \notin isr
         IN  {IEBit[Events[i]]}

\* bool ADC::enableInterrupt(device, isr)   (adc.cpp:266-303)
EnableInterruptOp(s, isr) ==
    IF s.instance.sampling THEN Outcome(s, {}, "false")
    ELSE Outcome([s EXCEPT !.regs.IER = @ \cup FirstPresent(isr),
                           !.instance.cbs = isr,
                           !.nvic = [enabled |-> TRUE, prio |-> 0]],
                 (IF isr = {} THEN {} ELSE {"IER"}) \cup {"cbs", "NVIC"}, "true")

\* Mutant: disableInterrupts clears the enable bits of the registered
\* callbacks only.
DisableInterruptsRegistered(s) ==
    IF s.instance.sampling THEN Outcome(s, {}, "false")
    ELSE Outcome([s EXCEPT !.nvic.enabled = FALSE,
                           !.regs.IER = @ \ { IEBit[e] : e \in s.instance.cbs }],
                 {"NVIC", "IER"}, "true")

\* Mutant: disableInterrupts does not look at the Sampling flag.
DisableInterruptsUnguarded(s) ==
    Outcome([s EXCEPT !.nvic.enabled = FALSE, !.regs.IER = {}],
            {"NVIC", "IER"}, "true")

\* bool ADC::disableInterrupts(device)   (adc.cpp:308-321)
DisableInterruptsOp(s) ==
    IF s.instance.sampling THEN Outcome(s, {}, "false")
    ELSE Outcome([s EXCEPT !.nvic.enabled = FALSE, !.regs.IER = {}],
                 {"NVIC", "IER"}, "true")

EnableInterrupt ==
    \E isr \in IsrArgs :
        Atomic("enableInterrupt", << isr >>, EnableInterruptOp(Snapshot, isr))

DisableInterrupts ==
    Atomic("disableInterrupts", << >>, DisableInterruptsOp(Snapshot))

\* enableInterrupt statement by statement, for the interrupts that fire
\* inside it.  adc.cpp:268-289: the Sampling check and the else-if chain
\* that sets one enable bit.
EnableInterruptEnter ==
    \E isr \in IsrArgs :
        /\ Begin
        /\ irq' = NoIrq
        /\ UNCHANGED << tick0, timeout, calOk, val >>
        /\ IF instance.sampling
           THEN /\ Return(Called("enableInterrupt", << isr >>), "false")
                /\ effects' = {}
                /\ UNCHANGED << instance, regs, rcc, ccr, gpio, nvic >>
           ELSE /\ Apply([Snapshot EXCEPT !.regs.IER = @ \cup FirstPresent(isr)])
                /\ pc' = "ei_cbs"
                /\ call' = Called("enableInterrupt", << isr >>)
                /\ effects' = IF isr = {} THEN {} ELSE {"IER"}
                /\ UNCHANGED << tick, phase, ts, spun, condAt, waited, uart, ads >>

\* instance.cbs = isr;   (adc.cpp:291)
EnableInterruptStore ==
    /\ pc = "ei_cbs"
    /\ Apply([Snapshot EXCEPT !.instance.cbs = call.args[1]])
    /\ pc' = "ei_nvic"
    /\ effects' = effects \cup {"cbs"}
    /\ irq' = NoIrq
    /\ UNCHANGED << tick0, tick, timeout, phase, ts, spun, call, pre, condAt, calOk,
                    val, waited, uart, ads >>

\* NVIC_EnableIRQ; NVIC_SetPriority(.., 0); return true;   (adc.cpp:296-299)
EnableInterruptArm ==
    /\ pc = "ei_nvic"
    /\ Apply([Snapshot EXCEPT !.nvic = [enabled |-> TRUE, prio |-> 0]])
    /\ Return(call, "true")
    /\ effects' = effects \cup {"NVIC"}
    /\ irq' = NoIrq
    /\ UNCHANGED << tick0, timeout, pre, calOk, val >>

(* --------------------------------- start ------------------------------- *)
\* Mutant: a stale ADRDY is not cleared before ADEN is set.
StartEntryStale(s) == [s EXCEPT !.regs.CR = @ \cup {"ADEN"}]

\* adc.cpp:332-338: clear a stale ADRDY, set ADEN.
StartEntry(s) ==
    [s EXCEPT !.regs.ISR = IF "ADRDY" \in @ THEN IsrOrAssign(@, "ADRDY") ELSE @,
              !.regs.CR = @ \cup {"ADEN"}]

\* Mutant: the lifecycle precondition is not checked.
NoPrecondition(s) == TRUE

\* The lifecycle precondition of start, startSampling and stop.
ActiveCalibrated(s) == s.instance.active /\ s.instance.calibrated

\* bool ADC::start(ADC_devices device)   (adc.cpp:326-340)
Start ==
    /\ Begin
    /\ UNCHANGED << tick0, timeout, calOk, val >>
    /\ irq' = NoIrq
    /\ IF ~ActiveCalibrated(Snapshot)
       THEN /\ Return(Called("start", << >>), "false")
            /\ effects' = {}
            /\ UNCHANGED << instance, regs, rcc, ccr, gpio, nvic >>
       ELSE /\ Apply(StartEntry(Snapshot))
            /\ EnterWait("start_adrdy", StartEntry(Snapshot))
            /\ call' = Called("start", << >>)
            /\ effects' = (IF "ADRDY" \in regs.ISR THEN {"ISR"} ELSE {}) \cup {"CR"}

\* adc.cpp:341, 348: ADRDY is set.
StartWaitAdrdy ==
    /\ pc = "start_adrdy" /\ phase = "poll"
    /\ IF ~Awaited("start_adrdy", Snapshot)
       THEN Spin
       ELSE /\ Return(call, "true")
            /\ UNCHANGED << instance, regs, rcc, ccr, gpio, nvic, tick0, timeout, pre,
                            effects, calOk, val >>
            /\ irq' = NoIrq

(* ----------------------------- startSampling --------------------------- *)
\* bool ADC::startSampling(ADC_devices device)   (adc.cpp:356-371)
StartSamplingOp(s) ==
    IF ~ActiveCalibrated(s) THEN Outcome(s, {}, "false")
    ELSE Outcome([s EXCEPT !.regs.CR = @ \cup {"ADSTART"},
                           !.instance.sampling = TRUE], {"CR"}, "true")

StartSampling ==
    Atomic("startSampling", << >>, StartSamplingOp(Snapshot))

(* -------------------------------- getValue ----------------------------- *)
\* bool ADC::getValue(device, val)   (adc.cpp:376-383)
GetValue ==
    /\ Begin
    /\ UNCHANGED << instance, regs, rcc, ccr, gpio, nvic, tick0, timeout, calOk, val >>
    /\ irq' = NoIrq
    /\ effects' = {}
    /\ IF ~(instance.active /\ instance.sampling)
       THEN Return(Called("getValue", << >>), "false")
       ELSE /\ EnterWait("get_eoc", Snapshot)
            /\ call' = Called("getValue", << >>)

\* Mutant: the Sampling flag is not cleared after the read.
GetValueStillSampling(s) == [s EXCEPT !.regs.ISR = @ \ {"EOC"}]

\* val = instance.regs->DR; instance.sampling = false;   (adc.cpp:391-393)
\* The read of the data register clears EOC.
GetValueDone(s) ==
    [s EXCEPT !.regs.ISR = @ \ {"EOC"}, !.instance.sampling = FALSE]

\* adc.cpp:384, 391-395: EOC is set; read the data register (the read
\* clears EOC), the sampling is over.
GetValueWaitEoc ==
    /\ pc = "get_eoc" /\ phase = "poll"
    /\ IF ~Awaited("get_eoc", Snapshot)
       THEN Spin
       ELSE /\ val' = regs.DR
            /\ Apply(GetValueDone(Snapshot))
            /\ Return(call, "true")
            /\ effects' = effects \cup {"DR"}
            /\ UNCHANGED << tick0, timeout, pre, calOk >>
            /\ irq' = NoIrq

(* ---------------------------------- stop ------------------------------- *)
\* Mutant: stop() requests the disable together with the stop-conversion.
StopEntryDisables(s) == [s EXCEPT !.regs.CR = @ \cup {"ADSTP", "ADDIS"}]

\* instance.regs->CR |= ADC_CR_ADSTP;   (adc.cpp:410)
StopEntry(s) == [s EXCEPT !.regs.CR = @ \cup {"ADSTP"}]

\* bool ADC::stop(ADC_devices device)   (adc.cpp:404-412)
Stop ==
    /\ Begin
    /\ UNCHANGED << tick0, timeout, calOk, val >>
    /\ irq' = NoIrq
    /\ IF ~ActiveCalibrated(Snapshot)
       THEN /\ Return(Called("stop", << >>), "false")
            /\ effects' = {}
            /\ UNCHANGED << instance, regs, rcc, ccr, gpio, nvic >>
       ELSE LET s == StopEntry(Snapshot)
            IN  /\ Apply(s)
                /\ EnterWait("stop_adstp", s)
                /\ call' = Called("stop", << >>)
                /\ effects' = {"CR"}

\* instance.regs->CR |= ADC_CR_ADDIS;   (adc.cpp:420)
StopDisable(s) == [s EXCEPT !.regs.CR = @ \cup {"ADDIS"}]

\* adc.cpp:413, 420-421: ADSTP is 0; set ADDIS, wait for ADEN = 0.
StopWaitAdstp ==
    /\ pc = "stop_adstp" /\ phase = "poll"
    /\ IF ~Awaited("stop_adstp", Snapshot)
       THEN Spin
       ELSE LET s == StopDisable(Snapshot)
            IN  /\ Apply(s)
                /\ EnterWait("stop_aden", s)
                /\ UNCHANGED << tick0, timeout, call, pre, effects, calOk, val >>
                /\ irq' = NoIrq

\* adc.cpp:422, 429: ADEN is 0.
StopWaitAden ==
    /\ pc = "stop_aden" /\ phase = "poll"
    /\ IF ~Awaited("stop_aden", Snapshot)
       THEN Spin
       ELSE /\ Return(call, "true")
            /\ UNCHANGED << instance, regs, rcc, ccr, gpio, nvic, tick0, timeout, pre,
                            effects, calOk, val >>
            /\ irq' = NoIrq

(* --------------------------- the loop body ----------------------------- *)
\* if (((McuCore::getSysTick() - ts) > timeout) || timeout == 0) return false;
\* the same body in every wait (adc.cpp:103-106, 117-120, 166-169, 342-345,
\* 385-388, 414-417, 423-426).
WaitExpiry ==
    /\ pc \in Waits /\ phase = "check"
    /\ IF Expired
       THEN /\ Return(call, "false")
            /\ UNCHANGED << instance, regs, rcc, ccr, gpio, nvic, tick0, timeout, pre,
                            effects, calOk, val >>
            /\ irq' = NoIrq
       ELSE /\ phase' = "poll"
            /\ spun' = TRUE
            /\ UNCHANGED << instance, regs, rcc, ccr, gpio, nvic, tick, tick0, timeout,
                            pc, ts, call, pre, effects, condAt, calOk, val, waited,
                            uart, ads >>
            /\ irq' = NoIrq

(* ------------------------------ environment ---------------------------- *)
\* condAt after the hardware has moved to state s.
CondAtAfter(s) ==
    IF pc \notin Waits THEN -1
    ELSE IF ~Awaited(pc, s) THEN -1
    ELSE IF condAt = -1 THEN Elapsed.lo
    ELSE condAt

\* Positions inside enableInterrupt when it is followed statement by
\* statement: before instance.cbs = isr (adc.cpp:291) and before
\* NVIC_EnableIRQ (adc.cpp:296).
EnableSteps == { "ei_cbs", "ei_nvic" }

\* The positions inside an API call.
InCall == Waits \cup EnableSteps

\* A step of the environment to state s.  call, pre and effects describe
\* the call in progress, or the call whose return gave the current state:
\* outside a call the step ends their validity.
EnvStep(s) ==
    /\ Apply(s)
    /\ condAt' = CondAtAfter(s)
    /\ call' = IF pc \in InCall THEN call ELSE NoCall
    /\ pre' = IF pc \in InCall THEN pre ELSE s
    /\ effects' = IF pc \in InCall THEN effects ELSE {}
    /\ waited' = IF pc \in InCall THEN waited ELSE << >>
    /\ UNCHANGED << uart, ads >>
    /\ UNCHANGED << tick0, tick, timeout, phase, ts, spun, calOk, val >>

HwStep(s) ==
    /\ EnvStep(s)
    /\ irq' = NoIrq
    /\ UNCHANGED pc

\* The SysTick interrupt: one more tick.  A wait spins without sleeping or
\* yielding, much faster than the tick: its loop body runs at least once
\* per tick.
SysTick ==
    /\ pc \in Waits /\ spun
    /\ ~Gt32(Sub32(tick, ts), TickCap)
    /\ tick' = Inc32(tick)
    /\ spun' = FALSE
    /\ UNCHANGED << instance, regs, rcc, ccr, gpio, nvic, tick0, timeout, pc, phase, ts,
                    call, pre, effects, condAt, calOk, val, waited, uart, ads >>
    /\ irq' = NoIrq

\* The ADC has switched off: hardware clears ADEN and ADDIS.
HwDisabled ==
    /\ "ADDIS" \in regs.CR
    /\ HwStep([Snapshot EXCEPT !.regs.CR = @ \ {"ADEN", "ADDIS"}])

\* The calibration has ended: hardware clears ADCAL.
HwCalibrated ==
    /\ "ADCAL" \in regs.CR
    /\ HwStep([Snapshot EXCEPT !.regs.CR = @ \ {"ADCAL"}])

\* The 14 MHz oscillator is stable.
HwHsi14Ready ==
    /\ rcc.HSI14ON /\ ~rcc.HSI14RDY
    /\ HwStep([Snapshot EXCEPT !.rcc.HSI14RDY = TRUE])

\* The ADC is enabled and ready: hardware sets ADRDY.
HwReady ==
    /\ "ADEN" \in regs.CR /\ "ADRDY" \notin regs.ISR
    /\ HwStep([Snapshot EXCEPT !.regs.ISR = @ \cup {"ADRDY"}])

\* A conversion has ended: hardware loads the data register and sets EOC; in
\* single mode it clears ADSTART.
HwConverted ==
    /\ "ADSTART" \in regs.CR /\ "EOC" \notin regs.ISR
    /\ \E d \in 1..MaxSample :
          HwStep([Snapshot EXCEPT
                    !.regs.DR = d,
                    !.regs.ISR = @ \cup {"EOC"},
                    !.regs.CR = IF "CONT" \in regs.CFGR1 THEN @ ELSE @ \ {"ADSTART"}])

\* The conversion has been stopped: hardware clears ADSTP and ADSTART.
HwStopped ==
    /\ "ADSTP" \in regs.CR
    /\ HwStep([Snapshot EXCEPT !.regs.CR = @ \ {"ADSTP", "ADSTART"}])

\* A status flag is raised by the hardware.
HwRaise ==
    \E e \in EventSet :
        /\ e \notin regs.ISR
        /\ HwStep([Snapshot EXCEPT !.regs.ISR = @ \cup {e}])

(* --------------------------- interrupt routine ------------------------- *)
\* Bit 0 of ADC_ISR.
BitZero == "ADRDY"

\* instance.regs->ISR & ADC_ISR_x == ADC_ISR_x: in C, == binds tighter than
\* &, so the condition is ISR & (ADC_ISR_x == ADC_ISR_x), that is ISR & 1:
\* whatever the mask, it tests bit 0.
IsrTest(isr, mask) == BitZero \in isr

\* The branch of the else-if chain taken (adc.cpp:61-86), 0 if none.
IrqBranch(isr) ==
    IF \E k \in 1..Len(Events) : IsrTest(isr, Events[k])
    THEN CHOOSE k \in 1..Len(Events) :
            /\ IsrTest(isr, Events[k])
            /\ \A j \in 1..(k - 1) : ~IsrTest(isr, Events[j])
    ELSE 0

\* ISR after the branch of event e has run its callback; rd: the eoc
\* callback has read the data register, which clears EOC.
IrqClear(isr, e, rd) ==
    IF e = "EOC"
    THEN LET isr1 == IF rd THEN isr \ {"EOC"} ELSE isr
         IN  IF IsrTest(isr1, "EOC") THEN IsrOrAssign(isr1, "EOC") ELSE isr1
    ELSE IsrOrAssign(isr, e)

\* Mutant: the routine ends the sampling when it has served an event.
IrqBodyEndsSampling(s, e, rd) ==
    [s EXCEPT !.regs.ISR = IrqClear(@, e, rd), !.instance.sampling = FALSE,
              !.instance.active = FALSE]

\* The state the branch of event e leaves: the callback has returned, the
\* status register is written.
IrqBody(s, e, rd) == [s EXCEPT !.regs.ISR = IrqClear(@, e, rd)]

\* The interrupt line is pending: an enabled event is flagged.
IrqPending == nvic.enabled /\ \E e \in regs.ISR : IEBit[e] \in regs.IER

\* void ADC1_IRQHandler(void)   (adc.cpp:57-87).  Calling a callback that
\* is not registered (an empty std::function) ends the program.
ADC1_IRQHandler ==
    /\ pc # "fault"
    /\ IrqPending
    /\ LET k == IrqBranch(regs.ISR)
       IN  IF k = 0
           THEN /\ irq' = [ran |-> TRUE, entry |-> regs.ISR, called |-> << >>]
                /\ EnvStep(Snapshot)
                /\ UNCHANGED pc
           ELSE IF Events[k] \notin instance.cbs
           THEN /\ irq' = [ran |-> TRUE, entry |-> regs.ISR, called |-> << >>]
                /\ EnvStep(Snapshot)
                /\ pc' = "fault"
           ELSE \E rd \in BOOLEAN :
                /\ irq' = [ran |-> TRUE, entry |-> regs.ISR,
                           called |-> << Events[k] >>]
                /\ EnvStep(IrqBody(Snapshot, Events[k], rd))
                /\ UNCHANGED pc

(* ------------------------------- USART --------------------------------- *)
\* Rcc::enablePort(port): one more reference to the port clock; avail: the
\* gate can serve the request.
RccEnablePort(g, p, avail) ==
    IF avail /\ g[p] < MaxHandles
    THEN [ok |-> TRUE, g |-> [g EXCEPT ![p] = @ + 1]]
    ELSE [ok |-> FALSE, g |-> g]

\* Rcc::disablePort(port): one reference less; the clock is switched off
\* with the last one.
RccDisablePort(g, p) == [g EXCEPT ![p] = IF @ > 1 THEN @ - 1 ELSE 0]

\* gpio.set_af(port, pin, af): the pin service requests the port clock and
\* routes the pin.
SetAf(g, p, avail) == RccEnablePort(g, p, avail)

\* Mutant: the callback is stored whatever the outcome.
UOutStoresCallback(u, a, r, failed) ==
    [u EXCEPT !.call = [op |-> "startUart", args |-> a, ret |-> r, failed |-> failed],
              !.callback = "uartCallback"]

\* The outcome of a USART call: the driver state, the result, the service
\* call that failed.
UOut(u, a, r, failed) ==
    [u EXCEPT !.call = [op |-> "startUart", args |-> a, ret |-> r, failed |-> failed]]

\* The release of both ports on the failure paths (usart.cpp:200-201,
\* 206-207, 220-221).
ReleaseBoth(g, a) == RccDisablePort(RccDisablePort(g, a.tx_port), a.rx_port)

\* uint16_t uartdiv = SystemCoreClock / baudrate; the value stored in BRR
\* (usart.cpp:230-232), the two fields being disjoint.
Brr(baudrate) ==
    LET uartdiv == (SystemCoreClock \div baudrate) % 65536
    IN  (uartdiv \div 16) * (2 ^ USART_BRR_DIV_MANTISSA_Pos)
          + (uartdiv % 16) * (2 ^ USART_BRR_DIV_FRACTION_Pos)

\* bool USART::startUart(device, tx_port, tx_pin, tx_af, rx_port, rx_pin,
\* rx_af, baudrate, callback)   (usart.cpp:174-259); f: the service call
\* that the environment lets fail.
StartUartOp(u, a, f) ==
    IF a.tx_pin > MaxUartPin \/ a.rx_pin > MaxUartPin THEN UOut(u, a, "false", "none")
    ELSE IF a.tx_af > MaxUartAf \/ a.rx_af > MaxUartAf THEN UOut(u, a, "false", "none")
    ELSE IF u.active THEN UOut(u, a, "true", "none")
    ELSE
    LET e1 == SetAf(u.ports, a.tx_port, f # "tx_af")
    IN  IF ~e1.ok
        THEN UOut([u EXCEPT !.ports = RccDisablePort(e1.g, a.tx_port)],
                  a, "false", "tx_af")
        ELSE IF f = "tx_out"
        THEN UOut([u EXCEPT !.ports = RccDisablePort(e1.g, a.tx_port)],
                  a, "false", "tx_out")
        ELSE
        LET e2 == SetAf(e1.g, a.rx_port, f # "rx_af")
        IN  IF ~e2.ok
            THEN UOut([u EXCEPT !.ports = ReleaseBoth(e2.g, a)], a, "false", "rx_af")
            ELSE IF f = "rx_out"
            THEN UOut([u EXCEPT !.ports = ReleaseBoth(e2.g, a)], a, "false", "rx_out")
            ELSE IF f = "per"
            THEN UOut([u EXCEPT !.ports = ReleaseBoth(e2.g, a)], a, "false", "per")
            ELSE UOut([u EXCEPT !.ports = e2.g,
                                !.per = TRUE,
                                !.active = TRUE,
                                !.brr = Brr(a.baudrate),
                                !.cr1 = @ \cup {"RE", "TE", "UE", "RXNEIE"},
                                !.tx_port = a.tx_port,
                                !.rx_port = a.rx_port,
                                !.pins = << a.tx_pin, a.tx_af, a.rx_pin, a.rx_af >>,
                                !.baudrate = a.baudrate,
                                !.callback = "uartCallback",
                                !.prio = "0.1",
                                !.irqOn = TRUE],
                      a, "true", "none")

\* bool USART::stopUart(device)   (usart.cpp:279-294)
StopUartOp(u) ==
    LET c(r) == [op |-> "stopUart", args |-> << >>, ret |-> r, failed |-> "none"]
    IN  IF ~u.active THEN [u EXCEPT !.call = c("false")]
        ELSE [u EXCEPT !.cr1 = @ \ {"RE", "TE", "UE", "RXNEIE"},
                       !.irqOn = FALSE,
                       !.per = FALSE,
                       !.ports = RccDisablePort(RccDisablePort(@, u.tx_port),
                                                u.rx_port),
                       !.call = c("true")]

\* Baud rates passed.
Bauds == { 9600, 115200 }

\* Arguments startUart is driven with; the callback is uartCallback.
UartArgs ==
    [tx_port : Ports, tx_pin : {MaxUartPin, MaxUartPin + 1}, tx_af : {MaxUartAf},
     rx_port : Ports, rx_pin : {MaxUartPin}, rx_af : {MaxUartAf, MaxUartAf + 1},
     baudrate : Bauds]

StartUart ==
    \E a \in UartArgs, f \in UartStages :
        /\ uart' = [StartUartOp(uart, a, f) EXCEPT !.pre = uart.ports,
                                                   !.irq = NoUartIrq]
        /\ UNCHANGED << adcVars, ads >>

StopUart ==
    /\ uart' = [StopUartOp(uart) EXCEPT !.pre = uart.ports, !.irq = NoUartIrq]
    /\ UNCHANGED << adcVars, ads >>

\* Another peripheral is activated on port p: it takes a reference.
SiblingAcquire ==
    \E p \in Ports :
        /\ uart.held[p] < MaxSiblings
        /\ RccEnablePort(uart.ports, p, TRUE).ok
        /\ uart' = [uart EXCEPT !.ports = RccEnablePort(@, p, TRUE).g,
                                !.held[p] = @ + 1,
                                !.call = NoUartCall,
                                !.pre = RccEnablePort(uart.ports, p, TRUE).g]
        /\ UNCHANGED << adcVars, ads >>

\* Another peripheral on port p is stopped: it gives its reference back.
SiblingRelease ==
    \E p \in Ports :
        /\ uart.held[p] > 0
        /\ uart' = [uart EXCEPT !.ports = RccDisablePort(@, p),
                                !.held[p] = @ - 1,
                                !.call = NoUartCall,
                                !.pre = RccDisablePort(uart.ports, p)]
        /\ UNCHANGED << adcVars, ads >>

\* Words the receive data register is loaded with.
RxWords == { 65, 104, 255 }

\* A character has been received: the hardware loads RDR and sets RXNE; if
\* the previous one was not read it sets ORE and drops the new one.
UartReceive ==
    \E w \in RxWords :
        /\ {"RE", "UE"} \subseteq uart.cr1
        /\ uart' = [ (IF uart.rxne
                      THEN [uart EXCEPT !.ore = TRUE]
                      ELSE [uart EXCEPT !.rxne = TRUE, !.rdr = w])
                    EXCEPT !.call = NoUartCall, !.pre = uart.ports,
                           !.irq = NoUartIrq ]
        /\ UNCHANGED << adcVars, ads >>

\* bool USART::sendUart(device, ch)   (usart.cpp:263-275), the state it
\* leaves and the writes to TDR it adds to w.
SendUartOp(u, ch, w) ==
    IF ~u.active THEN [u |-> u, tdr |-> w] ELSE [u |-> u, tdr |-> Append(w, ch)]

\* void uartCallback(char ch)   (i2c_ads1115.cpp:12-16): echoes ch.
UartCallback(u, ch, w) == SendUartOp(u, ch, w)

\* Mutant: the callback gets the character of the previous interrupt.
Usart1IrqStale(u) ==
    IF u.rxne
    THEN LET cb == UartCallback(u, u.rxb, << 104 >>)
         IN  [cb.u EXCEPT !.rxne = FALSE, !.rxb = u.rdr % 256,
                          !.irq = [ran |-> TRUE, rxne |-> TRUE, rdr |-> u.rdr,
                                   reads |-> 1,
                                   called |-> << [cb |-> u.callback, ch |-> u.rxb] >>,
                                   tdr |-> cb.tdr]]
    ELSE [u EXCEPT !.irq = [NoUartIrq EXCEPT !.ran = TRUE, !.rdr = u.rdr]]

\* The body of USART1_IRQHandler (usart.cpp:71-78): TDR = 'h';
\* rxb = RDR (the read clears RXNE); instance.callback(rxb).
Usart1Irq(u) ==
    IF u.rxne
    THEN LET ch == u.rdr % 256
             cb == UartCallback(u, ch, << 104 >>)
         IN  [cb.u EXCEPT !.rxne = FALSE, !.rxb = ch,
                          !.irq = [ran |-> TRUE, rxne |-> TRUE, rdr |-> u.rdr,
                                   reads |-> 1,
                                   called |-> << [cb |-> u.callback, ch |-> ch] >>,
                                   tdr |-> cb.tdr]]
    ELSE [u EXCEPT !.irq = [NoUartIrq EXCEPT !.ran = TRUE, !.rdr = u.rdr]]

\* void USART1_IRQHandler(void): the line is armed and RXNEIE lets RXNE and
\* ORE raise it.
USART1_IRQHandler ==
    /\ uart.irqOn /\ "RXNEIE" \in uart.cr1
    /\ uart.rxne \/ uart.ore
    /\ uart' = [Usart1Irq(uart) EXCEPT !.call = NoUartCall, !.pre = uart.ports]
    /\ UNCHANGED << adcVars, ads >>

(* ------------------------------ ADS1115 -------------------------------- *)
\* Bytes are integers 0..255; the bit operations of C on them.
BitsOf(b) == { i \in 0..7 : (b \div (2 ^ i)) % 2 = 1 }

RECURSIVE ByteOf(_)
ByteOf(S) ==
    IF S = {} THEN 0
    ELSE LET i == CHOOSE j \in S : TRUE
         IN  (2 ^ i) + ByteOf(S \ {i})

\* a & b
And8(a, b) == ByteOf(BitsOf(a) \cap BitsOf(b))

\* a | b
Or8(a, b) == ByteOf(BitsOf(a) \cup BitsOf(b))

\* (uint8_t) ~a
Not8(a) == 255 - a

\* (uint8_t) (a << n)
Shl8(a, n) == (a * (2 ^ n)) % 256

\* a >> n
Shr8(a, n) == a \div (2 ^ n)

\* ADS1115_CFG_PGA_BIT - ADS1115_CFG_PGA_LENGTH + 1 - 8   (ADS1115.cpp:406)
PgaShift == ADS1115_CFG_PGA_BIT - ADS1115_CFG_PGA_LENGTH + 1 - 8

\* What the device returns when the register the pointer selects is read;
\* os: the status bit, 1 when no conversion is running.
DeviceRead(d, os) ==
    IF d.ptr = ADS1115_RA_CONFIG
    THEN << Or8(And8(d.cfg[1], 127), Shl8(os, ADS1115_CFG_OS_BIT - 8)), d.cfg[2] >>
    ELSE IF d.ptr = ADS1115_RA_HI_THRESH THEN d.hiThresh
    ELSE IF d.ptr = ADS1115_RA_LO_THRESH THEN d.loThresh
    ELSE << 0, 0 >>

\* bool ADS1115::setRegister(uint8_t reg)   (ADS1115.cpp:748-758)
SetRegister(d) ==
    [d EXCEPT !.buffer[1] = d.reg, !.ptr = d.reg]

\* bool ADS1115::receive(uint8_t* data), called with data = buffer
\* (ADS1115.cpp:778-786): pointer write, then a read of two bytes.
Receive(d, os) ==
    LET d1 == SetRegister(d)
        rd == DeviceRead(d1, os)
    IN  [d1 EXCEPT !.buffer[1] = rd[1], !.buffer[2] = rd[2]]

\* bool ADS1115::send(uint8_t* data), called with data = buffer
\* (ADS1115.cpp:763-774): the three assignments shift the buffer, then the
\* three bytes are written to the device.
Send(d) ==
    LET b == << d.reg, d.buffer[1], d.buffer[2] >>
    IN  [d EXCEPT !.buffer = b,
                  !.ptr = b[1],
                  !.cfg = IF b[1] = ADS1115_RA_CONFIG
                          THEN << And8(b[2], 127), b[3] >> ELSE @,
                  !.hiThresh = IF b[1] = ADS1115_RA_HI_THRESH
                               THEN << b[2], b[3] >> ELSE @,
                  !.loThresh = IF b[1] = ADS1115_RA_LO_THRESH
                               THEN << b[2], b[3] >> ELSE @]

\* The entry of trace for setMode(mode).
ModeTag == << "setMode(CONTINUOUS)", "setMode(SINGLESHOT)" >>

\* void ADS1115::setMode(bool mode)   (ADS1115.cpp:465-475)
SetModeOp(d, mode, os) ==
    LET d1 == Receive([d EXCEPT !.reg = ADS1115_RA_CONFIG], os)
        b0 == Or8(And8(d1.buffer[1], Not8(Shl8(1, ADS1115_CFG_MODE_BIT - 8))),
                  Shl8(mode, ADS1115_CFG_MODE_BIT - 8))
    IN  [Send([d1 EXCEPT !.buffer[1] = b0])
            EXCEPT !.devMode = mode, !.trace = Append(@, ModeTag[mode + 1])]

\* void ADS1115::triggerConversion()   (ADS1115.cpp:344-349)
TriggerConversion(d, os) ==
    LET d1 == Receive([d EXCEPT !.reg = ADS1115_RA_CONFIG], os)
    IN  Send([d1 EXCEPT !.buffer[1] =
                  Or8(@, Shl8(1, ADS1115_CFG_OS_BIT - 8))])

\* bool ADS1115::isConversionReady()   (ADS1115.cpp:332-338), the state it
\* leaves.
IsConversionReady(d, os) ==
    LET d1 == Receive([d EXCEPT !.reg = ADS1115_RA_CONFIG], os)
    IN  [d1 EXCEPT !.buffer[1] =
            Shr8(And8(@, Shl8(1, ADS1115_CFG_OS_BIT - 8)), ADS1115_CFG_OS_BIT - 8)]

\* int16_t ADS1115::getConversion(bool triggerAndPoll = true)
\* (ADS1115.cpp:155-163), the state it leaves.
GetConversion(d, os) ==
    LET d1 == IF d.devMode = ADS1115_MODE_SINGLESHOT
              THEN IsConversionReady(TriggerConversion(d, os), os)
              ELSE d
    IN  Receive([d1 EXCEPT !.reg = ADS1115_RA_CONVERSION,
                           !.trace = Append(@, "getConversion")], os)

\* void ADS1115::setGain(uint8_t gain)   (ADS1115.cpp:426-442); send()
\* always returns true.
SetGainOp(d, gain, os) ==
    LET d1 == Receive([d EXCEPT !.reg = ADS1115_RA_CONFIG], os)
        b0 == Or8(And8(d1.buffer[1], Not8(Shl8(7, PgaShift))),
                  Shl8(gain, PgaShift))
        d2 == [Send([d1 EXCEPT !.buffer[1] = b0])
                  EXCEPT !.pgaMode = gain,
                         !.wr = [fetched |-> << d1.buffer[1], d1.buffer[2] >>,
                                 written |-> << b0, d1.buffer[2] >>]]
    IN  IF d2.devMode = ADS1115_MODE_CONTINUOUS
        THEN SetModeOp(GetConversion(SetModeOp(d2, ADS1115_MODE_SINGLESHOT, os), os),
                       ADS1115_MODE_CONTINUOUS, os)
        ELSE d2

\* uint8_t ADS1115::getGain()   (ADS1115.cpp:403-410), the state it leaves;
\* the value returned is pgaMode.
GetGainOp(d, os) ==
    LET d1 == Receive([d EXCEPT !.reg = ADS1115_RA_CONFIG], os)
        b0 == Shr8(And8(d1.buffer[1], Shl8(7, PgaShift)), PgaShift)
    IN  [d1 EXCEPT !.buffer[1] = b0, !.pgaMode = b0]

\* ADS1115_CFG_MUX_BIT - ADS1115_CFG_MUX_LENGTH + 1 - 8   (ADS1115.cpp:385)
MuxShift == ADS1115_CFG_MUX_BIT - ADS1115_CFG_MUX_LENGTH + 1 - 8

\* void ADS1115::setMultiplexer(uint8_t mux)   (ADS1115.cpp:380-396)
SetMultiplexerOp(d, mux, os) ==
    LET d1 == Receive([d EXCEPT !.reg = ADS1115_RA_CONFIG], os)
        b0 == Or8(And8(d1.buffer[1], Not8(Shl8(7, MuxShift))),
                  Shl8(mux, MuxShift))
        d2 == [Send([d1 EXCEPT !.buffer[1] = b0])
                  EXCEPT !.muxMode = mux,
                         !.wr = [fetched |-> << d1.buffer[1], d1.buffer[2] >>,
                                 written |-> << b0, d1.buffer[2] >>]]
    IN  IF d2.devMode = ADS1115_MODE_CONTINUOUS
        THEN SetModeOp(GetConversion(SetModeOp(d2, ADS1115_MODE_SINGLESHOT, os), os),
                       ADS1115_MODE_CONTINUOUS, os)
        ELSE d2

\* ADS1115_CFG_DR_BIT - ADS1115_CFG_DR_LENGTH + 1   (ADS1115.cpp:507)
RateShift == ADS1115_CFG_DR_BIT - ADS1115_CFG_DR_LENGTH + 1

\* void ADS1115::setRate(uint8_t rate)   (ADS1115.cpp:503-511)
SetRateOp(d, rate, os) ==
    LET d1 == Receive([d EXCEPT !.reg = ADS1115_RA_CONFIG], os)
        b1 == Or8(And8(d1.buffer[2], Not8(Shl8(7, RateShift))),
                  Shl8(rate, RateShift))
    IN  [Send([d1 EXCEPT !.buffer[2] = b1])
            EXCEPT !.wr = [fetched |-> << d1.buffer[1], d1.buffer[2] >>,
                           written |-> << d1.buffer[1], b1 >>]]

\* void ADS1115::setComparatorMode(bool mode)   (ADS1115.cpp:533-541)
SetComparatorModeOp(d, mode, os) ==
    LET d1 == Receive([d EXCEPT !.reg = ADS1115_RA_CONFIG], os)
        b1 == Or8(And8(d1.buffer[2], Not8(Shl8(1, ADS1115_CFG_COMP_MODE_BIT))),
                  Shl8(mode, ADS1115_CFG_COMP_MODE_BIT))
    IN  Send([d1 EXCEPT !.buffer[2] = b1])

\* void ADS1115::setComparatorPolarity(bool polarity)   (ADS1115.cpp:563-571)
SetComparatorPolarityOp(d, polarity, os) ==
    LET d1 == Receive([d EXCEPT !.reg = ADS1115_RA_CONFIG], os)
        b1 == Or8(And8(d1.buffer[2], Not8(Shl8(1, ADS1115_CFG_COMP_POL_BIT))),
                  Shl8(polarity, ADS1115_CFG_COMP_POL_BIT))
    IN  Send([d1 EXCEPT !.buffer[2] = b1])

\* void ADS1115::setComparatorQueueMode(uint8_t mode)   (ADS1115.cpp:628-636)
SetComparatorQueueModeOp(d, mode, os) ==
    LET d1 == Receive([d EXCEPT !.reg = ADS1115_RA_CONFIG], os)
        b1 == Or8(And8(d1.buffer[2], Not8(3)), mode)
    IN  [Send([d1 EXCEPT !.buffer[2] = b1])
            EXCEPT !.wr = [fetched |-> << d1.buffer[1], d1.buffer[2] >>,
                           written |-> << d1.buffer[1], b1 >>]]

\* void ADS1115::setConversionReadyPinMode()   (ADS1115.cpp:685-696);
\* buffer holds bytes, so the assignment buffer[0] = (1 << 8) stores
\* (uint8_t) 256.
SetConversionReadyPinModeOp(d, os) ==
    LET d1 == Receive([d EXCEPT !.reg = ADS1115_RA_HI_THRESH], os)
        d2 == Send([d1 EXCEPT !.buffer[1] = (2 ^ 8) % 256])
        d3 == Receive([d2 EXCEPT !.reg = ADS1115_RA_LO_THRESH], os)
        d4 == Send([d3 EXCEPT !.buffer[1] = 0])
    IN  SetComparatorQueueModeOp(SetComparatorPolarityOp(d4, 0, os), 0, os)

\* A call on the object: the state, the call record.
AdsCall(d, op, arg, ret) ==
    /\ ads' = [d EXCEPT !.call = [op |-> op, arg |-> arg, ret |-> ret],
                        !.prev = ads.call,
                        !.pre = ads.cfg,
                        !.preMode = ads.devMode,
                        !.wr = IF op \in FieldSetters THEN d.wr ELSE NoWrite,
                        !.trace = SubSeq(d.trace, Len(ads.trace) + 1, Len(d.trace))]
    /\ UNCHANGED << adcVars, uart >>

\* Gain codes of the 3-bit field.
GainArgs == 0..7

SetGain ==
    \E gain \in GainArgs, os \in 0..1 :
        AdsCall(SetGainOp(ads, gain, os), "setGain", gain, 0)

GetGain ==
    \E os \in 0..1 :
        AdsCall(GetGainOp(ads, os), "getGain", 0, GetGainOp(ads, os).pgaMode)

SetMode ==
    \E mode \in {ADS1115_MODE_CONTINUOUS, ADS1115_MODE_SINGLESHOT}, os \in 0..1 :
        AdsCall(SetModeOp(ads, mode, os), "setMode", mode, 0)

\* receive(buffer) on a bus on which the device answers (conn) or not: in
\* the second case the pointer write and the read fail, the device and the
\* rest of the buffer are untouched.  receive ignores both results
\* (ADS1115.cpp:778-786).
ReceiveOnBus(d, conn, os) ==
    IF conn THEN Receive(d, os) ELSE [d EXCEPT !.buffer[1] = d.reg]

\* bool ADS1115::testConnection()   (ADS1115.cpp:100-103): the state it
\* leaves; the value returned is receive(buffer) == 1, and receive returns
\* true.
TestConnectionOp(d, conn, os) ==
    ReceiveOnBus([d EXCEPT !.reg = ADS1115_RA_CONVERSION], conn, os)

\* The call with the device connected (arg 1) or not (arg 0); ret 1: true.
TestConnection ==
    \E conn \in BOOLEAN, os \in 0..1 :
        AdsCall(TestConnectionOp(ads, conn, os), "testConnection",
                IF conn THEN 1 ELSE 0, 1)

\* Mutant: the loop makes one attempt more than max_retries.
PollMoreOffByOne(p) == p.i <= p.max

\* i < max_retries   (ADS1115.cpp:112)
PollMore(p) == p.i < p.max

\* bool ADS1115::pollConversion(uint16_t max_retries)   (ADS1115.cpp:111):
\* the call, with i = 0.
PollConversion ==
    \E max \in 0..MaxRetries :
        /\ ads.poll.pc = "idle"
        /\ ads' = [ads EXCEPT !.poll = [NoPoll EXCEPT !.pc = "loop", !.max = max]]
        /\ UNCHANGED << adcVars, uart >>

\* One evaluation of the loop condition with the body or the return that
\* follows it (ADS1115.cpp:112-115).
PollStep ==
    /\ ads.poll.pc = "loop"
    /\ IF PollMore(ads.poll)
       THEN \E os \in 0..1 :
              \E d \in { IsConversionReady(ads, os) }, r \in 0..1 :
                /\ r = d.buffer[1]
                /\ ads' = [d EXCEPT
                            !.poll.tries = Append(@, r),
                            !.poll.pc = IF r # 0 THEN "idle" ELSE "loop",
                            !.poll.ret = IF r # 0 THEN "true" ELSE "none",
                            !.poll.i = IF r # 0 THEN @ ELSE @ + 1]
       ELSE ads' = [ads EXCEPT !.poll.pc = "idle", !.poll.ret = "false"]
    /\ UNCHANGED << adcVars, uart >>

\* Multiplexer and rate codes passed: the ends of the 3-bit fields.
FieldArgs == { 0, 7 }

SetMultiplexer ==
    \E mux \in FieldArgs, os \in 0..1 :
        AdsCall(SetMultiplexerOp(ads, mux, os), "setMultiplexer", mux, 0)

SetRate ==
    \E rate \in FieldArgs, os \in 0..1 :
        AdsCall(SetRateOp(ads, rate, os), "setRate", rate, 0)

SetComparatorMode ==
    \E mode \in 0..1, os \in 0..1 :
        AdsCall(SetComparatorModeOp(ads, mode, os), "setComparatorMode", mode, 0)

\* Field codes passed as uint8_t: one that fits every field, one wider
\* than every field.
ByteArgs == { 3, 8 }

SetMultiplexerByte ==
    \E mux \in ByteArgs, os \in 0..1 :
        AdsCall(SetMultiplexerOp(ads, mux, os), "setMultiplexer", mux, 0)

SetGainByte ==
    \E gain \in ByteArgs, os \in 0..1 :
        AdsCall(SetGainOp(ads, gain, os), "setGain", gain, 0)

SetRateByte ==
    \E rate \in ByteArgs, os \in 0..1 :
        AdsCall(SetRateOp(ads, rate, os), "setRate", rate, 0)

SetComparatorQueueModeByte ==
    \E mode \in ByteArgs, os \in 0..1 :
        AdsCall(SetComparatorQueueModeOp(ads, mode, os),
                "setComparatorQueueMode", mode, 0)

SetConversionReadyPinMode ==
    \E os \in 0..1 :
        AdsCall(SetConversionReadyPinModeOp(ads, os),
                "setConversionReadyPinMode", 0, 0)

(* ---------------------------- specifications -------------------------- *)
\* The lifecycle calls of one device, with the hardware and the tick.
\* startSampling brings the device to the wait of getValue; the conversions
\* that complete are part of SpecChan.
Next ==
    \/ Calibrate
    \/ CalibrateWaitAden
    \/ CalibrateWaitAdcal
    \/ Configure
    \/ ConfigureWaitHsi14
    \/ Start
    \/ StartWaitAdrdy
    \/ StartSampling
    \/ GetValue
    \/ GetValueWaitEoc
    \/ Stop
    \/ StopWaitAdstp
    \/ StopWaitAden
    \/ WaitExpiry
    \/ SysTick
    \/ HwDisabled
    \/ HwCalibrated
    \/ HwHsi14Ready
    \/ HwReady
    \/ HwStopped

Spec == Init /\ [][Next]_vars

\* Channel selection and interrupt set-up around a sampling: configure,
\* startSampling and getValue bring the device in and out of Sampling.
InitChan ==
    /\ InitDevice
    /\ InitRest
    /\ timeout = MaxTimeout
    /\ tick0 = Zero32

NextChan ==
    \/ Channel
    \/ ChannelInt
    \/ EnableInterrupt
    \/ DisableInterrupts
    \/ Configure
    \/ CalibrateWaitAden
    \/ CalibrateWaitAdcal
    \/ ConfigureWaitHsi14
    \/ StartSampling
    \/ GetValue
    \/ GetValueWaitEoc
    \/ WaitExpiry
    \/ SysTick
    \/ HwCalibrated
    \/ HwHsi14Ready
    \/ HwConverted

SpecChan == InitChan /\ [][NextChan]_vars

\* Interrupt dispatch: the callbacks are registered and the hardware raises
\* status flags.
NextIrq ==
    \/ EnableInterrupt
    \/ DisableInterrupts
    \/ HwRaise
    \/ ADC1_IRQHandler

SpecIrq == InitChan /\ [][NextIrq]_vars

(* ------------------------------ properties ----------------------------- *)
\* A step that leaves a wait with its condition found true.
WaitLeft == pc \in Waits /\ phase = "poll" /\ pc' # pc

\* A step that leaves a wait by its time-out.
WaitFailed == pc \in Waits /\ phase = "check" /\ pc' = "idle"

\* The call has returned and nothing has happened since.
Returned(op) == pc = "idle" /\ call.op = op /\ call.ret # "none"

ChannelOps == {"channel", "channelInternal"}

GuardedOps == ChannelOps \cup {"enableInterrupt", "disableInterrupts"}

\* The event of highest priority in a non-empty set of status bits.
Highest(isr) ==
    Events[CHOOSE k \in 1..Len(Events) :
              /\ Events[k] \in isr
              /\ \A j \in 1..(k - 1) : Events[j] \notin isr]

\* C1, as stated: a wait whose condition becomes true T ticks after it began
\* succeeds if and only if T <= B, and fails for every T when B = 0.
C1_SucceedsIffWithinBound ==
    [][ /\ WaitLeft => (condAt <= timeout /\ timeout # 0)
        /\ (WaitFailed /\ condAt >= 0) => (condAt > timeout \/ timeout = 0) ]_vars

\* C1, amended: a wait with bound B >= 1 never fails when the condition came
\* true at T < B and never succeeds when it came true at T > B + 1; with
\* B = 0 it succeeds only when the condition holds at the first sample.
C1_Handshake ==
    [][ /\ WaitLeft => /\ condAt >= 0
                       /\ condAt <= timeout + 1
                       /\ timeout = 0 => condAt = 0
        /\ WaitFailed => (timeout = 0 \/ condAt = -1 \/ condAt >= timeout) ]_vars

\* C1 witness: start() has succeeded on a condition that came true one tick
\* after the bound.
C1_Witness ==
    /\ Returned("start") /\ call.ret = "true"
    /\ timeout >= 1 /\ condAt = timeout + 1

C3_FrozenWhileSampling ==
    (pc = "idle" /\ call.op \in GuardedOps /\ pre.instance.sampling)
        => (call.ret = "false" /\ Snapshot = pre /\ effects = {})

\* C3 witness: disableInterrupts() was refused on a sampling device whose
\* interrupt line is armed.
C3_Witness ==
    /\ Returned("disableInterrupts") /\ pre.instance.sampling
    /\ call.ret = "false" /\ nvic.enabled /\ regs.IER # {}

\* C4: configure() on an Active device returns true and writes no register,
\* requests no clock and does not calibrate, whatever the mode.
C4_ConfigureIdempotent ==
    (pc = "idle" /\ call.op = "configure" /\ pre.instance.active)
        => (call.ret = "true" /\ effects = {} /\ Snapshot = pre)

\* C4 witness: configure(continuous) has returned on a device that is
\* active in single mode.
C4_Witness ==
    /\ Returned("configure") /\ pre.instance.active
    /\ call.args[1] = "ADC_MODE_CONTINUOUS" /\ "CONT" \notin regs.CFGR1

\* C5, as stated: when configure() returns false the flags, the clock gate
\* and the registers are as before the call.
C5_FailureLeavesStateUnchanged ==
    (Returned("configure") /\ call.ret = "false")
        => /\ instance.active = pre.instance.active
           /\ instance.calibrated = pre.instance.calibrated
           /\ rcc = pre.rcc
           /\ regs = pre.regs

\* C5, amended: when configure() returns false the device is not Active and
\* the Sampling flag and the mode bit are as before the call.
C5_FailureLeavesInactive ==
    (Returned("configure") /\ call.ret = "false")
        => /\ ~instance.active /\ ~pre.instance.active
           /\ instance.sampling = pre.instance.sampling
           /\ ("CONT" \in regs.CFGR1) = ("CONT" \in pre.regs.CFGR1)

\* C5 witness: configure() has failed after its calibration succeeded and
\* after it obtained the clock gate.
C5_Witness ==
    /\ Returned("configure") /\ call.ret = "false"
    /\ instance.calibrated /\ ~pre.instance.calibrated
    /\ rcc.ADCEN /\ ~pre.rcc.ADCEN

\* C6: channel() with time > 7 returns false and leaves CHSELR, SMPR, CCR and
\* the pin mode unchanged, in both overloads.
C6_BadTimeMutatesNothing ==
    (pc = "idle" /\ call.op \in ChannelOps /\ call.args[2] > MaxTime)
        => /\ call.ret = "false"
           /\ regs.CHSELR = pre.regs.CHSELR
           /\ regs.SMPR = pre.regs.SMPR
           /\ ccr = pre.ccr
           /\ gpio = pre.gpio

\* C7: channel() with pin > 18 returns false and leaves CHSELR unchanged.
C7_BadPinRejected ==
    (pc = "idle" /\ call.op = "channel" /\ call.args[1] > MaxPin)
        => (call.ret = "false" /\ regs.CHSELR = pre.regs.CHSELR)

\* C7 witness: channel(pin = 19, time = 7) was refused on a device that is
\* not sampling.
C7_Witness ==
    /\ Returned("channel") /\ call.args = << MaxPin + 1, MaxTime >>
    /\ ~pre.instance.sampling /\ call.ret = "false"

\* C8: channel() on a device that is not Active returns false and changes
\* no register or pin mode.
C8_ChannelNeedsActive ==
    (pc = "idle" /\ call.op \in ChannelOps /\ ~pre.instance.active)
        => /\ call.ret = "false"
           /\ regs = pre.regs
           /\ ccr = pre.ccr
           /\ gpio = pre.gpio

\* C9: run with a non-empty set of status bits, the interrupt routine invokes
\* exactly the callback of the highest-priority bit set.
C9_HighestPriorityCallback ==
    (irq.ran /\ irq.entry # {}) => irq.called = << Highest(irq.entry) >>

\* C10: every status bit set on entry other than the highest-priority one is
\* still set when the interrupt routine returns.
C10_LowerBitsStaySet ==
    (irq.ran /\ irq.entry # {})
        => \A e \in irq.entry \ {Highest(irq.entry)} : e \in regs.ISR

(* ------------------------- C13: calibration times ---------------------- *)
\* calibrate() alone, with the bound of the source, on an ADC that is never
\* enabled: the hardware ends the calibration at any time, or never.
InitCal ==
    /\ InitDevice
    /\ InitRest
    /\ timeout = TimeoutDefault
    /\ tick0 = Zero32

NextCal ==
    \/ Calibrate
    \/ CalibrateWaitAden
    \/ CalibrateWaitAdcal
    \/ WaitExpiry
    \/ SysTick
    \/ HwCalibrated

SpecCal == InitCal /\ [][NextCal]_vars

\* The two calibration times of the scenario, in ticks after ADCAL was set.
CalEarly == 50

CalLate == 450

\* The step is the return of calibrate() from its wait on ADCAL.
CalibrateReturns ==
    /\ pc = "cal_adcal" /\ call.op = "calibrate"
    /\ "ADEN" \notin pre.regs.CR
    /\ pc' = "idle"

\* C13: with bound 400 on a disabled ADC, calibrate() returns true and sets
\* the calibrated flag when ADCAL cleared 50 ticks after it was set; it does
\* not return true when ADCAL is still set 450 ticks after (it has returned
\* false before, at the expiry), and a false return leaves the flag unset.
C13_CalibrateScenario ==
    [][ CalibrateReturns =>
          /\ condAt = CalEarly => (call'.ret = "true" /\ instance'.calibrated)
          /\ call'.ret = "true" => (condAt >= 0 /\ condAt < CalLate)
          /\ (call'.ret = "false" /\ ~pre.instance.calibrated)
                => (~instance'.calibrated /\ condAt \notin 0..CalEarly) ]_vars

\* C13 witness: calibrate() has returned true on an ADCAL cleared at tick 50.
C13_Witness ==
    /\ Returned("calibrate") /\ call.ret = "true"
    /\ timeout = TimeoutDefault /\ condAt = CalEarly
    /\ instance.calibrated /\ ~pre.instance.calibrated

\* C13 witness of the late case: the first calibrate() has returned false
\* with ADCAL still set, the hardware not having answered within the bound.
C13_WitnessLate ==
    /\ Returned("calibrate") /\ call.ret = "false"
    /\ timeout = TimeoutDefault /\ condAt = -1 /\ "ADCAL" \in regs.CR
    /\ ~instance.calibrated

(* ------------------------------ C14 .. C18 ----------------------------- *)
\* C14: startSampling() on a device whose Sampling flag is set returns false
\* and does not write ADSTART again.
C14_OneSamplingOutstanding ==
    (Returned("startSampling") /\ pre.instance.sampling)
        => (call.ret = "false" /\ effects = {})

\* The step is the entry of start().
StartCalled == pc = "idle" /\ call'.op = "start" /\ call' # call

\* The step is the time-out of the wait of call op on wait w.
TimedOut(op, w) == pc = w /\ call.op = op /\ phase = "check" /\ pc' = "idle"

GetValueCalled == pc = "idle" /\ call'.op = "getValue" /\ call' # call

\* C16: getValue() on an Active, Sampling device that sees EOC within the
\* bound returns true, has read the data register (in that step only) into
\* val and has cleared Sampling; on a time-out it returns false, has not read
\* the data register, leaves val and Sampling as they were.  On a device not
\* Active or not Sampling it returns false without waiting or reading.
C16_GetValueContract ==
    [][ /\ (GetValueCalled /\ instance.active /\ instance.sampling)
            => (pc' = "get_eoc" /\ effects' = {} /\ val' = val)
        /\ (GetValueCalled /\ ~(instance.active /\ instance.sampling))
            => /\ pc' = "idle" /\ call'.ret = "false"
               /\ effects' = {} /\ val' = val /\ Snapshot' = Snapshot
        /\ (pc = "get_eoc" /\ pc' = "get_eoc")
            => (effects' = {} /\ val' = val /\ instance'.sampling)
        /\ (pc = "get_eoc" /\ phase = "poll" /\ pc' = "idle")
            => /\ call'.ret = "true"
               /\ "EOC" \in regs.ISR
               /\ val' = regs.DR
               /\ effects' = {"DR"}
               /\ ~instance'.sampling /\ instance'.active
        /\ TimedOut("getValue", "get_eoc")
            => /\ call'.ret = "false"
               /\ effects' = {} /\ val' = val
               /\ instance'.sampling ]_vars

\* C16 witness: getValue() has delivered a sample that differs from the
\* previous content of val.
C16_Witness ==
    /\ Returned("getValue") /\ call.ret = "true"
    /\ val = regs.DR /\ val # 0 /\ ~instance.sampling /\ pre.instance.sampling

\* C17: stop() on an Active, Calibrated device sets ADSTP only; ADDIS is
\* written when the first wait has seen ADSTP clear, and the second wait
\* starts with zero elapsed ticks; a time-out of either wait returns false
\* and writes no register.
C17_StopContract ==
    [][ /\ (pc = "idle" /\ call'.op = "stop" /\ call' # call
               /\ ActiveCalibrated(Snapshot))
            => /\ pc' = "stop_adstp"
               /\ regs'.CR = regs.CR \cup {"ADSTP"}
        /\ (pc = "stop_adstp" /\ pc' = "stop_aden")
            => /\ "ADSTP" \notin regs.CR
               /\ regs'.CR = regs.CR \cup {"ADDIS"}
               /\ Sub32(tick', ts') = Zero32
        /\ (TimedOut("stop", "stop_adstp") \/ TimedOut("stop", "stop_aden"))
            => (call'.ret = "false" /\ Snapshot' = Snapshot)
        /\ (pc = "stop_adstp" /\ pc' \in {"stop_adstp", "idle"}
               /\ "ADDIS" \notin pre.regs.CR)
            => "ADDIS" \notin regs'.CR
        /\ (pc = "stop_aden" /\ phase = "poll" /\ pc' = "idle")
            => (call'.ret = "true" /\ "ADEN" \notin regs.CR) ]_vars

\* C17 witness: stop() has returned true although each of its two waits
\* took as long as the bound.
C17_Witness ==
    /\ Returned("stop") /\ call.ret = "true"
    /\ timeout >= 1 /\ waited = << timeout >> /\ condAt = timeout

\* C18: a configure() that follows a successful stop() does not return
\* without effect: it goes on to configure the device.
C18_ConfigureAfterStop ==
    [][ (pc = "idle" /\ call.op = "stop" /\ call.ret = "true"
            /\ call'.op = "configure")
          => (pc' # "idle" \/ effects' # {}) ]_vars

(* ---------------------------- C20: termination ------------------------- *)
\* The steps of the program inside a blocking call.
ProgramStep ==
    \/ CalibrateWaitAden
    \/ CalibrateWaitAdcal
    \/ ConfigureWaitHsi14
    \/ StartWaitAdrdy
    \/ GetValueWaitEoc
    \/ StopWaitAdstp
    \/ StopWaitAden
    \/ WaitExpiry

\* The blocking calls of Spec with the largest bound.  The processor keeps
\* executing the call and the tick keeps advancing; the hardware is under no
\* obligation.
SpecLive ==
    /\ InitChan
    /\ [][Next]_vars
    /\ WF_vars(ProgramStep)
    /\ WF_vars(SysTick)

\* C20: every blocking call that is in one of its waits returns, whatever
\* the hardware does with the status bits.
C20_BlockingCallsReturn == (pc \in Waits) ~> (pc = "idle")

\* C20 witness: a call has returned by time-out from its second or third
\* wait, whose condition the hardware never met.
C20_Witness ==
    /\ pc = "idle" /\ call.op \in {"calibrate", "configure", "start", "getValue", "stop"}
    /\ call.ret = "false" /\ condAt = -1 /\ timeout >= 1
    /\ waited # << >>

(* ------------------------- C11, C19: the USART ------------------------- *)
\* startUart and stopUart of one USART, with other peripherals coming and
\* going on the same ports.
NextUart ==
    \/ StartUart
    \/ StopUart
    \/ SiblingAcquire
    \/ SiblingRelease

SpecUart == InitChan /\ [][NextUart]_vars

\* C11: when startUart fails on the RX pin after the TX pin was configured,
\* it returns false and the reference count of every port clock is what it
\* was before the call.
C11_RollbackRestoresCounts ==
    (uart.call.op = "startUart" /\ uart.call.failed \in {"rx_af", "rx_out"})
        => (uart.call.ret = "false" /\ uart.ports = uart.pre)

\* C19: no call on the USART leaves a port clock off that another active
\* peripheral holds a reference to.
C19_SiblingClockKept ==
    \A p \in Ports : uart.held[p] > 0 => uart.ports[p] > 0

(* ---------------------- C12: the gain round trip ----------------------- *)
\* High bytes of the configuration register: every content of the 7 stored
\* bits; low bytes: all clear, the power-on value 0x83, all set.
AdsHighBytes == 0..127

AdsLowBytes == { 0, 131, 255 }

\* An object that no call has been made on: the constructors leave devMode
\* uninitialised (ADS1115.cpp:44-61), it reads as either mode; the device
\* holds any configuration.
InitAds ==
    /\ InitDevice
    /\ timeout = MaxTimeout
    /\ tick0 = Zero32
    /\ uart = UartReset
    /\ ads \in { AdsObject(hi, lo, mode) :
                   hi \in AdsHighBytes, lo \in AdsLowBytes,
                   mode \in {ADS1115_MODE_CONTINUOUS, ADS1115_MODE_SINGLESHOT} }

NextAds ==
    \/ SetGain
    \/ GetGain
    \/ SetMode

SpecAds == InitAds /\ [][NextAds]_vars

\* The bits high .. high - length + 1 of the 16-bit register << hi, lo >>.
Field(r, high, length) ==
    ((r[1] * 256 + r[2]) \div (2 ^ (high - length + 1))) % (2 ^ length)

\* C12: after setGain(code) the mux, mode and rate fields of the device's
\* configuration register are what they were before the call, and a
\* getGain() that follows returns code.
C12_GainRoundTrip ==
    /\ ads.call.op = "setGain"
         => /\ Field(ads.cfg, ADS1115_CFG_MUX_BIT, ADS1115_CFG_MUX_LENGTH)
                 = Field(ads.pre, ADS1115_CFG_MUX_BIT, ADS1115_CFG_MUX_LENGTH)
            /\ Field(ads.cfg, ADS1115_CFG_MODE_BIT, 1)
                 = Field(ads.pre, ADS1115_CFG_MODE_BIT, 1)
            /\ Field(ads.cfg, ADS1115_CFG_DR_BIT, ADS1115_CFG_DR_LENGTH)
                 = Field(ads.pre, ADS1115_CFG_DR_BIT, ADS1115_CFG_DR_LENGTH)
    /\ (ads.call.op = "getGain" /\ ads.prev.op = "setGain")
         => ads.call.ret = ads.prev.arg

\* C12 restricted to an object whose devMode equals the mode of the device.
C12_GainRoundTripInSync ==
    (Field(ads.pre, ADS1115_CFG_MODE_BIT, 1) = ads.devMode) => C12_GainRoundTrip

(* ------------------- C22 .. C27: the ADC interrupts -------------------- *)
\* C22: enableInterrupt(device, isr) on a device that is not sampling leaves
\* the enable bit of every event with a callback in isr set, and sets the
\* enable bit of no event without one.
C22_EnablesEveryPresent ==
    (Returned("enableInterrupt") /\ ~pre.instance.sampling)
        => \A e \in EventSet :
              /\ e \in call.args[1] => IEBit[e] \in regs.IER
              /\ e \notin call.args[1]
                    => (IEBit[e] \in regs.IER => IEBit[e] \in pre.regs.IER)

\* C23: every interrupt-enable bit set in ADC_IER belongs to an event that
\* has a callback in instance.cbs.
C23_EnabledHasCallback ==
    \A e \in EventSet : IEBit[e] \in regs.IER => e \in instance.cbs

\* C24: disableInterrupts() on a device that is not sampling returns true,
\* leaves ADC_IER empty and the interrupt line disarmed and changes nothing
\* else, whatever was enabled or registered; a second call on the state it
\* leaves returns true and leaves that state.
C24_DisableIdempotent ==
    (Returned("disableInterrupts") /\ ~pre.instance.sampling)
        => /\ call.ret = "true"
           /\ regs.IER = {}
           /\ ~nvic.enabled
           /\ Snapshot = [pre EXCEPT !.regs.IER = {}, !.nvic.enabled = FALSE]
           /\ DisableInterruptsOp(Snapshot).ret = "true"
           /\ DisableInterruptsOp(Snapshot).s = Snapshot

\* C24 witness: disableInterrupts() has disarmed a line on which an enable
\* bit was set whose callback is no longer registered.
C24_Witness ==
    /\ Returned("disableInterrupts") /\ call.ret = "true"
    /\ pre.nvic.enabled
    /\ \E e \in EventSet : IEBit[e] \in pre.regs.IER /\ e \notin pre.instance.cbs
    /\ regs.IER = {}

\* C24 witness of the second call: disableInterrupts() has returned on a
\* device whose interrupts were already disabled, with callbacks registered.
C24_WitnessSecond ==
    /\ Returned("disableInterrupts") /\ call.ret = "true"
    /\ ~pre.nvic.enabled /\ pre.regs.IER = {} /\ pre.instance.cbs # {}
    /\ Snapshot = pre

\* The event of the branch the routine took on the status it found.
Matched(isr) == Events[IrqBranch(isr)]

\* C25: when the interrupt routine matches an event that has no callback
\* registered it invokes nothing, the program goes on, and the status bit of
\* that event is clear afterwards.
C25_MissingCallbackTolerated ==
    (irq.ran /\ IrqBranch(irq.entry) # 0 /\ Matched(irq.entry) \notin instance.cbs)
        => /\ irq.called = << >>
           /\ pc # "fault"
           /\ Matched(irq.entry) \notin regs.ISR

\* C26: the interrupt routine leaves EOC clear only in a run that invoked
\* the eoc callback: the bit is cleared by the callback's read of the data
\* register or, if still set after the callback, by the routine's write.
C26_EocClearedAfterCallback ==
    (irq.ran /\ "EOC" \in irq.entry /\ "EOC" \notin regs.ISR)
        => irq.called = << "EOC" >>

\* The main flow brings the device up (configure, start) and registers
\* callbacks while the interrupt routine is served whenever it is pending.
NextIrqFlow ==
    \/ EnableInterrupt
    \/ Configure
    \/ CalibrateWaitAden
    \/ CalibrateWaitAdcal
    \/ ConfigureWaitHsi14
    \/ Start
    \/ StartWaitAdrdy
    \/ WaitExpiry
    \/ SysTick
    \/ HwCalibrated
    \/ HwHsi14Ready
    \/ HwReady
    \/ ADC1_IRQHandler

SpecIrqFlow == InitChan /\ [][NextIrqFlow]_vars

\* C27: a run of the interrupt routine, idle or inside a wait of the main
\* flow, leaves the flags and callbacks of the device, every register other
\* than the status register, the clocks, the pins and the interrupt
\* controller as they are, sets no status bit, and leaves the main flow
\* where it is (or ends the program on a missing callback).
C27_IrqFrame ==
    [][ irq'.ran =>
          /\ instance' = instance
          /\ [regs' EXCEPT !.ISR = regs.ISR] = regs
          /\ regs'.ISR \subseteq regs.ISR
          /\ rcc' = rcc /\ ccr' = ccr /\ gpio' = gpio /\ nvic' = nvic
          /\ pc' \in {pc, "fault"}
          /\ pc \in Waits => call' = call ]_vars

\* C27 witness: the routine has run inside the wait of start() on an active,
\* calibrated device, has invoked a callback and has cleared status bits.
C27_Witness ==
    /\ irq.ran /\ pc = "start_adrdy" /\ irq.called # << >>
    /\ regs.ISR # irq.entry
    /\ instance.active /\ instance.calibrated

(* ---------------------- C21: the receive interrupt --------------------- *)
\* One USART that is started and stopped while characters arrive.
NextUartRx ==
    \/ StartUart
    \/ StopUart
    \/ UartReceive
    \/ USART1_IRQHandler

SpecUartRx == InitChan /\ [][NextUartRx]_vars

\* C21: a run of the interrupt routine that finds RXNE set has read the
\* receive data register once (RXNE is clear after it) and has invoked the
\* registered callback once, with the character read; a run that finds RXNE
\* clear has read nothing and invoked nothing.
C21_OneCallbackPerCharacter ==
    uart.irq.ran =>
        IF uart.irq.rxne
        THEN /\ uart.irq.reads = 1
             /\ ~uart.rxne
             /\ uart.irq.called
                  = << [cb |-> "uartCallback", ch |-> uart.irq.rdr % 256] >>
        ELSE /\ uart.irq.reads = 0
             /\ uart.irq.called = << >>
             /\ uart.irq.tdr = << >>

\* C21 witness: the routine has delivered a character that differs from the
\* one delivered before it.
C21_Witness ==
    /\ uart.irq.ran /\ uart.irq.rxne
    /\ uart.irq.rdr = 255 /\ uart.rxb = 255
    /\ uart.irq.tdr = << 104, 255 >>

\* C21 witness of the other case: the routine has run on an overrun with no
\* character to read.
C21_WitnessNoData ==
    /\ uart.irq.ran /\ ~uart.irq.rxne /\ uart.ore /\ uart.irq.reads = 0

(* ------------------- C28: setters in continuous mode ------------------- *)
\* The device after power-on with an object whose devMode reads as either
\* mode.
InitAdsCfg ==
    /\ InitDevice
    /\ timeout = MaxTimeout
    /\ tick0 = Zero32
    /\ uart = UartReset
    /\ ads \in { AdsObject(AdsReset.cfg[1], AdsReset.cfg[2], mode) :
                   mode \in {ADS1115_MODE_CONTINUOUS, ADS1115_MODE_SINGLESHOT} }

\* setGain has the body of setMultiplexer on another field and is part of
\* SpecAds.
NextAdsCfg ==
    \/ SetMultiplexer
    \/ SetMode
    \/ SetRate
    \/ SetComparatorMode
    \/ TestConnection
    \/ SetConversionReadyPinMode

SpecAdsCfg == InitAdsCfg /\ [][NextAdsCfg]_vars

Setters == { "setMultiplexer", "setMode", "setRate", "setComparatorMode" }

\* The restart of the conversions.
Restart == << "setMode(SINGLESHOT)", "getConversion", "setMode(CONTINUOUS)" >>

\* C28: a field setter called while the device converts continuously (and
\* devMode says so) ends with setMode(single-shot), one getConversion and
\* setMode(continuous), and leaves the device in continuous mode.
C28_SettersRestartContinuous ==
    (/\ ads.call.op \in Setters
     /\ Field(ads.pre, ADS1115_CFG_MODE_BIT, 1) = ADS1115_MODE_CONTINUOUS
     /\ ads.preMode = ADS1115_MODE_CONTINUOUS)
        => /\ Len(ads.trace) >= Len(Restart)
           /\ SubSeq(ads.trace, Len(ads.trace) - Len(Restart) + 1, Len(ads.trace))
                = Restart
           /\ Field(ads.cfg, ADS1115_CFG_MODE_BIT, 1) = ADS1115_MODE_CONTINUOUS

(* ------------------------ C29: pollConversion -------------------------- *)
\* pollConversion on a device with the power-on high byte and any of the
\* low bytes; the processor keeps executing the loop, the device reports
\* ready when it likes, or never.
InitPoll ==
    /\ InitDevice
    /\ timeout = MaxTimeout
    /\ tick0 = Zero32
    /\ uart = UartReset
    /\ ads \in { AdsObject(AdsReset.cfg[1], lo, mode) :
                   lo \in AdsLowBytes,
                   mode \in {ADS1115_MODE_CONTINUOUS, ADS1115_MODE_SINGLESHOT} }

NextPoll ==
    \/ PollConversion
    \/ PollStep

SpecPoll == InitPoll /\ [][NextPoll]_vars /\ WF_vars(PollStep)

\* The attempts made so far: at most max_retries, and none but the last
\* reported ready.
PollAttempts ==
    /\ Len(ads.poll.tries) <= ads.poll.max
    /\ \A k \in 1..(Len(ads.poll.tries) - 1) : ads.poll.tries[k] = 0

\* The value returned: true at the attempt that reported ready, false after
\* max_retries attempts that did not.
PollResult ==
    /\ ads.poll.ret = "true"
          => (ads.poll.tries # << >> /\ ads.poll.tries[Len(ads.poll.tries)] = 1)
    /\ ads.poll.ret = "false"
          => /\ Len(ads.poll.tries) = ads.poll.max
             /\ \A k \in 1..Len(ads.poll.tries) : ads.poll.tries[k] = 0
    /\ (ads.poll.pc = "loop" /\ ads.poll.tries # << >>)
          => ads.poll.tries[Len(ads.poll.tries)] = 0

\* C29: pollConversion(max_retries) calls isConversionReady at most
\* max_retries times, returns true at the first call that reports ready and
\* false after max_retries calls that do not (with no call when max_retries
\* is 0), and it always returns.
C29_PollTerminates ==
    /\ [](PollAttempts /\ PollResult)
    /\ (ads.poll.pc = "loop") ~> (ads.poll.pc = "idle")

\* C29 witness: pollConversion has returned true at its last permitted
\* attempt.
C29_Witness ==
    /\ ads.poll.pc = "idle" /\ ads.poll.ret = "true"
    /\ ads.poll.max >= 2 /\ Len(ads.poll.tries) = ads.poll.max

\* C29 witness of the bound: pollConversion has returned false after
\* max_retries attempts.
C29_WitnessExhausted ==
    /\ ads.poll.pc = "idle" /\ ads.poll.ret = "false"
    /\ ads.poll.max >= 2 /\ Len(ads.poll.tries) = ads.poll.max

\* C29 witness of max_retries = 0: false without an attempt.
C29_WitnessZero ==
    /\ ads.poll.pc = "idle" /\ ads.poll.ret = "false"
    /\ ads.poll.max = 0 /\ ads.poll.tries = << >>

\* C30: testConnection() returns true when the device is connected and
\* answers the read, and false when it is not.
C30_TestConnectionReports ==
    ads.call.op = "testConnection" => (ads.call.ret = 1 <=> ads.call.arg = 1)

(* ------------- C31: the conversion-ready pin mode ---------------------- *)
\* Bit i of byte b.
Bit(b, i) == (b \div (2 ^ i)) % 2

\* C31: after setConversionReadyPinMode the most significant bit of the
\* high-threshold register is 1, that of the low-threshold register is 0,
\* and the comparator polarity and queue bits of the configuration register
\* are 0.
C31_ReadyPinMode ==
    ads.call.op = "setConversionReadyPinMode" =>
        /\ Bit(ads.hiThresh[1], 7) = 1
        /\ Bit(ads.loThresh[1], 7) = 0
        /\ Bit(ads.cfg[2], ADS1115_CFG_COMP_POL_BIT) = 0
        /\ ads.cfg[2] % 4 = 0

(* ------------- C32: startUart on an active device ---------------------- *)
\* C32: startUart on a device that is already active returns false and
\* changes nothing.
C32_ActiveStartRefused ==
    [][ uart.active /\ uart'.call.op = "startUart" =>
          /\ uart'.call.ret = "false"
          /\ [uart' EXCEPT !.call = uart.call, !.pre = uart.pre,
                           !.irq = uart.irq] = uart ]_vars

(* ------------- C33: waits across the wrap-around of the tick ----------- *)
\* The waits of calibrate and getValue, started at boot time or two ticks
\* before the counter wraps.
InitWrap ==
    /\ InitDevice
    /\ InitRest
    /\ timeout \in 0..MaxTimeout
    /\ tick0 \in StartTicks

NextWrap ==
    \/ Calibrate
    \/ CalibrateWaitAden
    \/ CalibrateWaitAdcal
    \/ Configure
    \/ ConfigureWaitHsi14
    \/ StartSampling
    \/ GetValue
    \/ GetValueWaitEoc
    \/ WaitExpiry
    \/ SysTick
    \/ HwCalibrated
    \/ HwHsi14Ready
    \/ HwConverted

SpecWrap == InitWrap /\ [][NextWrap]_vars

\* The counter n ticks after it had the value t.
RECURSIVE TickAfter(_, _)
TickAfter(t, n) == IF n = 0 THEN t ELSE Inc32(TickAfter(t, n - 1))

\* C33: in every wait, wherever it started, the elapsed time computed is
\* the number of ticks since the wait began and the test against the bound
\* is true exactly when more ticks than the bound have passed; a wait with a
\* bound of at least 1 times out, if at all, at the first tick past the
\* bound.
C33_WrapNeutral ==
    /\ [](pc \in Waits =>
            \E n \in 0..(timeout + 2) :
                /\ tick = TickAfter(ts, n)
                /\ Elapsed = U32(0, n)
                /\ Gt32(Elapsed, timeout) <=> n > timeout)
    /\ [][ (WaitFailed /\ timeout >= 1) => tick = TickAfter(ts, timeout + 1) ]_vars

\* C33 witness: a wait that began two ticks before the wrap-around is at
\* its expiry test with the counter wrapped to 0, and the test is true.
C33_Witness ==
    /\ pc \in Waits /\ phase = "check"
    /\ ts = U32(Half - 1, Half - 2) /\ tick = Zero32
    /\ timeout = 1 /\ Expired

\* C33 witness: getValue waits across the wrap-around without expiring.
C33_WitnessRunning ==
    /\ pc = "get_eoc" /\ phase = "check"
    /\ ts = U32(Half - 1, Half - 2) /\ tick = U32(Half - 1, Half - 1)
    /\ timeout = 1 /\ ~Expired

(* ------------- C34: interrupts inside enableInterrupt ------------------ *)
NextIrqRace ==
    \/ EnableInterruptEnter
    \/ EnableInterruptStore
    \/ EnableInterruptArm
    \/ DisableInterrupts
    \/ HwRaise
    \/ ADC1_IRQHandler

SpecIrqRace == InitChan /\ [][NextIrqRace]_vars

\* C34: at no point inside an enableInterrupt call on a device whose
\* interrupt line was armed before is an enable bit that the call has set
\* without its callback in instance.cbs.
C34_NoOpenWindow ==
    (pc \in EnableSteps /\ pre.nvic.enabled) =>
        \A e \in call.args[1] :
            (IEBit[e] \in regs.IER /\ IEBit[e] \notin pre.regs.IER)
                => e \in instance.cbs

(* ------------- C35, C36, C40: the USART session ------------------------ *)
\* The arguments are in range.
ValidUartArgs(a) ==
    /\ a.tx_pin <= MaxUartPin /\ a.rx_pin <= MaxUartPin
    /\ a.tx_af <= MaxUartAf /\ a.rx_af <= MaxUartAf

\* The step is a startUart call.
StartUartCalled == uart'.call.op = "startUart" /\ uart' # uart

\* C35: a startUart with valid arguments, all services succeeding, that
\* follows a stopUart that returned true leaves the USART enabled with the
\* receiver, the transmitter and the receive interrupt on, the baud rate and
\* the callback of the call stored and the interrupt line armed.
C35_RestartAfterStop ==
    [][ ( /\ uart.call.op = "stopUart" /\ uart.call.ret = "true"
          /\ StartUartCalled
          /\ ValidUartArgs(uart'.call.args)
          /\ uart'.call.failed = "none" )
        => /\ {"UE", "RE", "TE", "RXNEIE"} \subseteq uart'.cr1
           /\ uart'.brr = Brr(uart'.call.args.baudrate)
           /\ uart'.baudrate = uart'.call.args.baudrate
           /\ uart'.callback = "uartCallback"
           /\ uart'.irqOn ]_vars

\* C36: a run of the receive interrupt routine writes no register: the
\* transmit data register holds only what the callback has sent.
C36_IrqWritesNothing ==
    uart.irq.ran =>
        uart.irq.tdr = IF uart.irq.rxne
                       THEN SendUartOp(uart, uart.irq.rdr % 256, << >>).tdr
                       ELSE << >>

\* What startUart may not touch when it returns false: the USART
\* registers, the stored parameters and callback, the interrupt line.
UartFrame(u) ==
    [cr1 |-> u.cr1, brr |-> u.brr, tx_port |-> u.tx_port, rx_port |-> u.rx_port,
     pins |-> u.pins, baudrate |-> u.baudrate, callback |-> u.callback,
     irqOn |-> u.irqOn, prio |-> u.prio]

\* C40, as stated: after a startUart that returned false the instance is
\* not active and nothing of UartFrame has changed.
C40_FailedStartInactive ==
    [][ (StartUartCalled /\ uart'.call.ret = "false")
          => (~uart'.active /\ UartFrame(uart') = UartFrame(uart)) ]_vars

\* C40, amended: a startUart that returned false has left the active flag
\* as it was (false unless the device was active before the call and the
\* call failed its range checks) and has changed nothing of UartFrame.
C40_FailedStartFrame ==
    [][ (StartUartCalled /\ uart'.call.ret = "false")
          => /\ uart'.active = uart.active
             /\ UartFrame(uart') = UartFrame(uart)
             /\ uart.active => ~ValidUartArgs(uart'.call.args)
             /\ ~uart.active => ~uart'.active ]_vars

\* C40 witness: startUart has failed at the clock gate of the USART on a
\* device that was never started, after both pins were configured.
C40_Witness ==
    /\ uart.call.op = "startUart" /\ uart.call.ret = "false"
    /\ uart.call.failed = "per"
    /\ ~uart.active /\ uart.callback = "none" /\ uart.cr1 = {}

\* C40 witness: startUart has returned false on an active device.
C40_WitnessActive ==
    /\ uart.call.op = "startUart" /\ uart.call.ret = "false"
    /\ uart.active /\ uart.irqOn /\ uart.callback = "uartCallback"

(* ------------- C37: stop and the Sampling flag ------------------------- *)
\* C37: after stop() has returned true the Sampling flag is false,
\* whatever it was before the call.
C37_StopEndsSampling ==
    (Returned("stop") /\ call.ret = "true") => ~instance.sampling

(* ------------- C38, C39: the cached mode, the field setters ------------ *)
\* C38: when setMultiplexer or setGain looks at devMode, devMode is the
\* mode bit of the device's configuration register (the setter's own write
\* keeps that bit, so both are what they were at the entry of the call).
C38_CachedModeInSync ==
    ads.call.op \in {"setMultiplexer", "setGain"} =>
        ads.preMode = Field(ads.pre, ADS1115_CFG_MODE_BIT, 1)

NextAdsField ==
    \/ SetMultiplexerByte
    \/ SetGainByte
    \/ SetRateByte
    \/ SetComparatorQueueModeByte

SpecAdsField == InitAdsCfg /\ [][NextAdsField]_vars

\* The positions (15 .. 0) of the field a setter writes.
FieldBits(op) ==
    CASE op = "setMultiplexer" ->
             (ADS1115_CFG_MUX_BIT - ADS1115_CFG_MUX_LENGTH + 1)..ADS1115_CFG_MUX_BIT
      [] op = "setGain" ->
             (ADS1115_CFG_PGA_BIT - ADS1115_CFG_PGA_LENGTH + 1)..ADS1115_CFG_PGA_BIT
      [] op = "setRate" ->
             (ADS1115_CFG_DR_BIT - ADS1115_CFG_DR_LENGTH + 1)..ADS1115_CFG_DR_BIT
      [] OTHER -> 0..1

\* C39: the 16-bit value a field setter writes back differs from the value
\* it fetched only in the bits of its own field, whatever the argument.
C39_OnlyOwnField ==
    ads.call.op \in FieldSetters =>
        \A i \in (0..15) \ FieldBits(ads.call.op) :
            Field(ads.wr.written, i, 1) = Field(ads.wr.fetched, i, 1)

====
